---- MODULE Spec2Model ----
(***************************************************************************)
(* State-machine model of the mangamanga maintenance scripts:              *)
(*   update_volume_pages.py  - reconcile bucket page counts with the db    *)
(*   upload_manga_to_db.py   - register a series from the bucket inventory *)
(*   upload_full_manga.py    - convert, upload and register a whole series *)
(* Each script's main() is a sequential program; `pc` is its position.     *)
(* Storage (bucket), the local output tree (outdir) and the database       *)
(* (series, db) are the environment the scripts act on.                    *)
(***************************************************************************)
EXTENDS Integers, Sequences, FiniteSets, TLC

\* ------------------------------------------------------------------ bounds
NumVols == 4        \* volume numbers range over 1..NumVols
MaxFiles == 2       \* a bucket folder holds up to MaxFiles objects
MaxPages == 1       \* a stored pageCount ranges over 1..MaxPages
NumSrcVols == 2     \* upload_full_manga: source volume folders 1..NumSrcVols
MaxImages == 2      \* upload_full_manga: a source folder holds up to MaxImages images
MaxWorkers == 2     \* upload_full_manga: --max-workers ranges over 1..MaxWorkers
MaxListing == 3      \* convert_single_volume: a source folder lists up to MaxListing files

\* ------------------------------------------------------- program constants
FailureLimit == 3   \* "if failed >= 3" in the apply loop
PadLength == 3      \* default length of pad_number

Vols == 1..NumVols
None == -1          \* Python's None where the other values are numbers

VARIABLES
    script,             \* which script's main() is running
    pc,                 \* position in main()
    convex_client,      \* TRUE iff CONVEX_URL was set (client constructed)
    r2_credentials,     \* TRUE iff get_r2_client() finds all three settings
    yes, dry_run,       \* command-line flags
    bucket,             \* storage: index into Folders -> the objects under that folder
    series,             \* database: number of series records with the slug
    db,                 \* database: series id -> (volumeNumber -> pageCount)
    db0,                \* history: db when main() started
    calls,              \* history: the mutations issued, in order
    message,            \* the last error or cancellation message printed
    confirm,            \* the answer read at the prompt, stripped and upper-cased
    manga,              \* update_volume_pages: result of get_manga_by_slug
    r2_volumes,         \* update_volume_pages: result of list_volume_folders
    db_volume_pages,    \* update_volume_pages: {volume_number: page_count}
    todo,               \* the part of sorted(all_volumes) still to classify
    table,              \* rows added to the comparison table
    changes_needed, matches, needs_update, missing_volumes, unexpected_volumes,
    idx,                \* index of the next entry of the loop over volumes
    updated, added, skipped, failed,
    volumes,            \* upload_manga_to_db, upload_full_manga: the volumes found
    manga_id,           \* the series id the volumes are added to (None: not yet known)
    added_volumes, skipped_volumes,     \* upload_manga_to_db: what the add loop did
    skip_convert, skip_r2, skip_db,     \* upload_full_manga: command-line flags
    max_workers,        \* upload_full_manga: size of the process pools
    source_exists,      \* upload_full_manga: TRUE iff the source directory exists
    source,             \* index into SrcFolders -> number of images (None: no such folder)
    outdir,             \* volume number -> the pages NNN.webp under output/volume-NNN
    volume_page_counts, \* upload_full_manga: {vol_num: converted}
    job_status,         \* the pool's futures, one per entry of volumes
    job_result,         \* what each finished job returned
    collected,          \* the futures as_completed has yielded to main()
    puts,               \* history: the storage keys <<volume, page>> put by this run
    encode_error,       \* history: per conversion job, the first image that failed (0: none)
    put_error,          \* history: per upload job, the first file whose put failed (0: none)
    encoded,            \* history: <<job, i>> for every source image i a job encoded
    posted,             \* history: <<job, i>> for every output file i a job put
    list_error,         \* history: the storage listing call that failed (0: none)
    read_error,         \* history: the database readers whose query raised
    volume,             \* upload_volume: the --volume option
    skip_bucket,        \* upload_volume: the answer to "Skip uploading to bucket ...?"
    vol_page_count,     \* upload_volume: page_count
    converted, errors,  \* upload_volume: what convert_volume / upload_to_r2 returned
    uploaded,
    listing,            \* one source folder's image paths, in the order rglob yields them
    png_files,          \* convert_single_volume: png_files
    written,            \* the output files written: page name and the source encoded
    webp_folder,        \* one output folder's files (name and bytes), in the order glob yields them
    manga_slug,         \* upload_single_volume_to_r2: manga_slug
    put_files,          \* upload_single_volume_to_r2: webp_files, file by file
    objects,            \* storage, object by object: <<key, body>>
    objects_once        \* history: <<objects>> when the upload job first returned

envVars == <<convex_client, r2_credentials, yes, dry_run, db0,
             skip_convert, skip_r2, skip_db, max_workers, source_exists, source, volume>>
dbVars == <<series, db, calls>>
diffVars == <<todo, table, changes_needed, matches, needs_update, missing_volumes,
              unexpected_volumes>>
countVars == <<updated, added, skipped, failed>>
uvpVars == <<manga, r2_volumes, db_volume_pages, diffVars, countVars>>
toDbVars == <<volumes, manga_id, added_volumes, skipped_volumes>>
poolVars == <<job_status, job_result, collected>>
fullVars == <<outdir, volume_page_counts, poolVars, puts>>
errVars == <<encode_error, put_error, encoded, posted, list_error, read_error>>
volVars == <<skip_bucket, vol_page_count, converted, errors, uploaded>>
fileVars == <<listing, png_files, written,
              webp_folder, manga_slug, put_files, objects, objects_once>>
vars == <<script, pc, envVars, bucket, dbVars, message, confirm, idx, uvpVars, toDbVars,
          fullVars, errVars, volVars, fileVars>>

\* ----------------------------------------------------------------- helpers
Min(S) == CHOOSE x \in S : \A y \in S : x <= y

\* sorted(S) for a finite set of integers
RECURSIVE sorted(_)
sorted(S) == IF S = {} THEN <<>> ELSE <<Min(S)>> \o sorted(S \ {Min(S)})

\* list.sort(key=lambda x: x[0]): stable insertion of e by its first component
RECURSIVE InsertByKey(_, _)
InsertByKey(s, e) ==
    IF s = <<>> THEN <<e>>
    ELSE IF e[1] < Head(s)[1] THEN <<e>> \o s
    ELSE <<Head(s)>> \o InsertByKey(Tail(s), e)

RECURSIVE SortByKey(_)
SortByKey(s) ==
    IF s = <<>> THEN <<>>
    ELSE InsertByKey(SortByKey(SubSeq(s, 1, Len(s) - 1)), s[Len(s)])

\* int(digits): the value of a decimal digit string
RECURSIVE ParseInt(_)
ParseInt(ds) ==
    IF ds = <<>> THEN 0 ELSE 10 * ParseInt(SubSeq(ds, 1, Len(ds) - 1)) + ds[Len(ds)]

\* str(num): the decimal digits of a natural number
RECURSIVE Str(_)
Str(n) == IF n < 10 THEN <<n>> ELSE Str(n \div 10) \o <<n % 10>>

\* str.zfill(length): pad with zeros on the left, never truncate
RECURSIVE ZFill(_, _)
ZFill(ds, length) == IF Len(ds) >= length THEN ds ELSE ZFill(<<0>> \o ds, length)

pad_number(num) == ZFill(Str(num), PadLength)

\* ----------------------------------------------------------------- storage
\* The first-level folders that may exist under manga/{slug}/, in the order
\* the listing returns them (keys in ascending byte order): a folder that is
\* no volume, the canonical volume folders, and a second spelling of volume 1.
Folders ==
    <<[stem |-> "extras", digits |-> <<>>]>>
    \o [v \in Vols |-> [stem |-> "volume-", digits |-> pad_number(v)]]
    \o <<[stem |-> "volume-", digits |-> <<1>>]>>

\* re.search(r"volume-(\d+)/", folder)
IsVolumeFolder(f) == f.stem = "volume-" /\ f.digits # <<>>

\* The for loop of list_volume_folders over CommonPrefixes: a folder is a
\* common prefix iff it holds an object; file_count = len(Contents).
RECURSIVE ScanFolders(_, _)
ScanFolders(b, i) ==
    IF i > Len(Folders) THEN <<>>
    ELSE IF b[i] # {} /\ IsVolumeFolder(Folders[i])
         THEN <<<<ParseInt(Folders[i].digits), Cardinality(b[i])>>>> \o ScanFolders(b, i + 1)
         ELSE ScanFolders(b, i + 1)

\* volumes.sort(key=lambda x: x[0]); return volumes
list_volume_folders(b) == SortByKey(ScanFolders(b, 1))

\* The list_objects_v2 calls of one list_volume_folders: the top-level
\* listing, then one listing per volume folder.
ListingCalls(b) ==
    1 + Cardinality({i \in DOMAIN Folders : b[i] # {} /\ IsVolumeFolder(Folders[i])})

\* Fault: a failed per-volume listing ends the loop and the entries gathered
\* so far are returned.
list_volume_folders_partial(b, failAt) ==
    IF ~r2_credentials
    THEN [raised |-> "R2 credentials not configured", failed |-> 0, volumes |-> <<>>]
    ELSE IF failAt = 1
    THEN [raised |-> "Failed to list R2 folders", failed |-> failAt, volumes |-> <<>>]
    ELSE IF failAt = 0
    THEN [raised |-> "", failed |-> 0, volumes |-> list_volume_folders(b)]
    ELSE [raised |-> "", failed |-> failAt,
          volumes |-> SortByKey(SubSeq(ScanFolders(b, 1), 1, failAt - 2))]

\* list_volume_folders when its failAt-th listing call raises (0: none does):
\* ValueError without credentials; any exception inside the try block
\* becomes ValueError and the entries gathered so far are dropped.
list_volume_folders_call(b, failAt) ==
    IF ~r2_credentials
    THEN [raised |-> "R2 credentials not configured", failed |-> 0, volumes |-> <<>>]
    ELSE IF failAt # 0
    THEN [raised |-> "Failed to list R2 folders", failed |-> failAt, volumes |-> <<>>]
    ELSE [raised |-> "", failed |-> 0, volumes |-> list_volume_folders(b)]

\* ------------------------------------------------------- local source tree
\* The directories that may exist under --source, in the order iterdir()
\* yields them: one folder per volume 1..NumSrcVols, and a second folder whose
\* name also parses to volume 1.  A name is stem + sep + digits.
SrcFolders ==
    [v \in 1..NumSrcVols |-> [stem |-> "v", sep |-> "", digits |-> ZFill(Str(v), 2)]]
    \o <<[stem |-> "volume", sep |-> "-", digits |-> <<1>>]>>

\* extract_volume_number: the patterns are tried in order, the first match wins.
\*   v(?:ol)?(?:ume)?\s*(\d+)   volume[_\s-]*(\d+)   vol[_\s-]*(\d+)   ^\s*(\d+)\s*$
extract_volume_number(f) ==
    IF f.digits = <<>> THEN 0
    ELSE IF f.stem \in {"v", "vol", "volume"} /\ f.sep \in {"", " "} THEN ParseInt(f.digits)
    ELSE IF f.stem = "volume" /\ f.sep \in {"_", " ", "-"} THEN ParseInt(f.digits)
    ELSE IF f.stem = "vol" /\ f.sep \in {"_", " ", "-"} THEN ParseInt(f.digits)
    ELSE IF f.stem = "" /\ f.sep \in {"", " "} THEN ParseInt(f.digits)
    ELSE 0

\* The for loop of find_volume_folders over source_path.iterdir().
RECURSIVE ScanSource(_, _)
ScanSource(src, i) ==
    IF i > Len(SrcFolders) THEN <<>>
    ELSE IF src[i] # None /\ extract_volume_number(SrcFolders[i]) > 0
         THEN <<<<extract_volume_number(SrcFolders[i]), i>>>> \o ScanSource(src, i + 1)
         ELSE ScanSource(src, i + 1)

\* volumes.sort(key=lambda x: x[0]); return volumes
find_volume_folders(src) == SortByKey(ScanSource(src, 1))

\* The index in Folders of the storage folder volume-{pad_number(v)}.
FolderOf(v) ==
    CHOOSE i \in 1..Len(Folders) : Folders[i] = [stem |-> "volume-", digits |-> pad_number(v)]

\* ---------------------------------------------------------------- database
\* What the backend does with an accepted mutation.

\* How a manga:addVolume call can end: the backend rejects a volume number
\* the series already has; any call can fail in transport.
AddVolumeOutcomes(d, v) == IF v \in DOMAIN d THEN {"duplicate", "error"} ELSE {"ok", "error"}
\* How a manga:updateVolume call can end.
UpdateVolumeOutcomes(d, v) ==
    IF v \in DOMAIN d THEN {"ok", "unsupported", "error"} ELSE {"unsupported", "error"}

Call(op, v, n, out) == [op |-> op, vol |-> v, pageCount |-> n, outcome |-> out]

\* The volumes of series sid after an accepted addVolume / updateVolume.
AddTo(sid, v, n) ==
    [db EXCEPT ![sid] = [x \in DOMAIN @ \cup {v} |-> IF x = v THEN n ELSE @[x]]]
UpdateIn(sid, v, n) ==
    [db EXCEPT ![sid] = [x \in DOMAIN @ |-> IF x = v THEN n ELSE @[x]]]

\* ----------------------------------------------------------- console input
\* What the user may type at a [Y/n] prompt, as a sequence of characters.
RawAnswers == { <<>>, <<"n">>, <<" ", "N", "o", " ">>, <<"y">>, <<"q">> }

RECURSIVE LStrip(_)
LStrip(s) == IF s # <<>> /\ Head(s) = " " THEN LStrip(Tail(s)) ELSE s
RECURSIVE RStrip(_)
RStrip(s) == IF s # <<>> /\ s[Len(s)] = " " THEN RStrip(SubSeq(s, 1, Len(s) - 1)) ELSE s
Strip(s) == RStrip(LStrip(s))

Upper(s) ==
    [i \in 1..Len(s) |->
        CASE s[i] = "n" -> "N" [] s[i] = "o" -> "O" [] s[i] = "y" -> "Y" [] s[i] = "q" -> "Q"
          [] OTHER -> s[i]]

\* confirm in ["N", "NO"]
Declined(c) == c \in { <<"N">>, <<"N", "O">> }

\* -------------------------------------------------------------------- Init
Unread == <<"?">>

\* A folder's objects are pages 1..n.
AllBuckets == [1..Len(Folders) -> {1..n : n \in 0..MaxFiles}]

InitDb ==
    /\ series \in 0..1
    /\ db \in IF series = 0 THEN {<<>>}
              ELSE {<<m>> : m \in UNION {[S -> 1..MaxPages] : S \in SUBSET Vols}}
    /\ db0 = db
    /\ calls = <<>>

InitLocals ==
    /\ pc = "start"
    /\ message = ""
    /\ confirm = Unread
    /\ manga = "unset"
    /\ r2_volumes = <<>>
    /\ db_volume_pages = <<>>
    /\ todo = <<>>
    /\ table = <<>>
    /\ changes_needed = <<>>
    /\ matches = 0
    /\ needs_update = <<>>
    /\ missing_volumes = <<>>
    /\ unexpected_volumes = <<>>
    /\ idx = 0
    /\ updated = 0 /\ added = 0 /\ skipped = 0 /\ failed = 0
    /\ volumes = <<>>
    /\ manga_id = None
    /\ added_volumes = <<>>
    /\ skipped_volumes = <<>>
    /\ volume_page_counts = <<>>
    /\ job_status = <<>>
    /\ job_result = <<>>
    /\ collected = {}
    /\ puts = {}
    /\ encode_error = <<>>
    /\ put_error = <<>>
    /\ encoded = {}
    /\ posted = {}
    /\ list_error = 0
    /\ read_error = {}
    /\ skip_bucket = FALSE
    /\ vol_page_count = 0
    /\ converted = None /\ errors = None /\ uploaded = None
    /\ png_files = <<>>
    /\ written = <<>>
    /\ put_files = <<>>
    /\ objects_once = <<>>

\* No single upload job is followed file by file.
NoUploadJob ==
    /\ webp_folder = <<>>
    /\ manga_slug = "s"
    /\ objects = {}

\* The options and directories only upload_full_manga has.
NoFullOptions ==
    /\ skip_convert = FALSE /\ skip_r2 = FALSE /\ skip_db = FALSE
    /\ max_workers = 1
    /\ source_exists = FALSE
    /\ source = [i \in 1..Len(SrcFolders) |-> None]
    /\ outdir = [v \in 1..NumSrcVols |-> {}]
    /\ volume = 1
    /\ listing = <<>> /\ NoUploadJob

InitUvp ==
    /\ script = "update_volume_pages"
    /\ convex_client \in BOOLEAN
    /\ r2_credentials \in BOOLEAN
    /\ yes \in BOOLEAN
    /\ dry_run \in BOOLEAN
    /\ NoFullOptions
    /\ InitDb
    /\ InitLocals

\* The source trees: the folder of volume 1 is absent or holds 0..MaxImages
\* images; every other folder is absent or holds MaxImages images.
SourceTrees ==
    {s \in [1..Len(SrcFolders) -> {None} \cup 0..MaxImages] :
        \A i \in 2..Len(SrcFolders) : s[i] \in {None, MaxImages}}

\* The output tree before the run: nothing, or the MaxImages pages an
\* earlier run left for volume 1.
OutputTrees ==
    {out \in [1..NumSrcVols -> {{}, 1..MaxImages}] : \A v \in 2..NumSrcVols : out[v] = {}}

\* Storage before the run: nothing, or the published copy of the output tree.
Published(out) ==
    [i \in 1..Len(Folders) |->
        IF \E v \in 1..NumSrcVols : i = FolderOf(v)
        THEN out[CHOOSE v \in 1..NumSrcVols : i = FolderOf(v)]
        ELSE {}]

\* upload_full_manga has no --dry-run option.
InitFull ==
    /\ script = "upload_full_manga"
    /\ convex_client \in BOOLEAN
    /\ r2_credentials \in BOOLEAN
    /\ yes \in BOOLEAN
    /\ dry_run = FALSE
    /\ skip_convert \in BOOLEAN /\ skip_r2 \in BOOLEAN /\ skip_db \in BOOLEAN
    /\ max_workers \in 1..MaxWorkers
    /\ source_exists \in BOOLEAN
    /\ source \in IF source_exists THEN SourceTrees
                  ELSE {[i \in 1..Len(SrcFolders) |-> None]}
    /\ volume = 1
    /\ listing = <<>> /\ NoUploadJob
    /\ outdir \in OutputTrees
    /\ bucket \in {Published([v \in 1..NumSrcVols |-> {}]), Published(outdir)}
    /\ series \in 0..1
    /\ db = [s \in 1..series |-> <<>>]
    /\ db0 = db
    /\ calls = <<>>
    /\ InitLocals

\* Buckets holding canonical volume folders only; upload_manga_to_db has no
\* --dry-run option.
Init ==
    /\ bucket \in {b \in AllBuckets : b[1] = {} /\ b[Len(Folders)] = {}}
    /\ \/ InitUvp
       \/ /\ script = "upload_manga_to_db"
          /\ convex_client \in BOOLEAN
          /\ r2_credentials \in BOOLEAN
          /\ yes \in BOOLEAN
          /\ dry_run = FALSE
          /\ NoFullOptions
          /\ InitDb
          /\ InitLocals

\* ----------------------------------------------- update_volume_pages.main
Uvp == script = "update_volume_pages"

\* "if not convex_client: ... raise typer.Exit(1)"
UvpStart ==
    /\ Uvp /\ pc = "start"
    /\ IF convex_client
       THEN pc' = "step1" /\ message' = message
       ELSE pc' = "exit1" /\ message' = "Convex client not initialized"
    /\ UNCHANGED <<script, envVars, errVars, volVars, fileVars, bucket, dbVars, confirm, idx, uvpVars, toDbVars, fullVars>>

\* The except clause of a reader: the names of the readers whose query raised.
Raised(errs, reader, queryOk) == IF queryOk THEN errs ELSE errs \cup {reader}

\* get_manga_by_slug: the query result, or None when the query raises.
get_manga_by_slug(queryOk) == IF queryOk /\ series > 0 THEN "dict" ELSE "None"

\* STEP 1: manga = get_manga_by_slug(slug); "if not manga: raise typer.Exit(1)"
UvpCheckManga ==
    /\ Uvp /\ pc = "step1"
    /\ \E queryOk \in BOOLEAN :
        /\ manga' = get_manga_by_slug(queryOk)
        /\ read_error' = Raised(read_error, "get_manga_by_slug", queryOk)
        /\ IF manga' = "None"
           THEN pc' = "exit1" /\ message' = "not found in database"
           ELSE pc' = "step2" /\ message' = message
    /\ UNCHANGED <<script, envVars, encode_error, put_error, encoded, posted, list_error, volVars, fileVars, bucket, dbVars, confirm, idx, r2_volumes,
                   db_volume_pages, diffVars, countVars, toDbVars, fullVars>>

\* Fault: an empty inventory does not end the run.
NoVolumesIgnored(r2v) == FALSE

\* "if not r2_volumes: ... raise typer.Exit(1)"
NoVolumesStops(r2v) == r2v = <<>>

\* STEP 2: r2_volumes = list_volume_folders(slug); a ValueError (missing
\* credentials, a failed listing) or an empty list ends the run with code 1.
\* The listing call that fails is failAt, counted down from the last call to
\* none (0).
UvpScanBucket ==
    /\ Uvp /\ pc = "step2"
    /\ \E k \in 0..ListingCalls(bucket) :
        LET failAt == ListingCalls(bucket) - k
            r == list_volume_folders_call(bucket, failAt)
        IN /\ list_error' = r.failed
           /\ IF r.raised = ""
              THEN /\ r2_volumes' = r.volumes
                   /\ IF NoVolumesStops(r2_volumes')
                      THEN pc' = "exit1" /\ message' = "No volumes found in R2"
                      ELSE pc' = "step3" /\ message' = message
              ELSE /\ r2_volumes' = r2_volumes
                   /\ pc' = "exit1"
                   /\ message' = r.raised
    /\ UNCHANGED <<script, envVars, read_error, encode_error, put_error, encoded, posted, volVars, fileVars,
                   bucket, dbVars, confirm, idx, manga,
                   db_volume_pages, diffVars, countVars, toDbVars, fullVars>>

\* get_volumes_for_manga, then {vol_num: vol_data.get("pageCount", 0)}: the
\* page counts of the series' volumes, or {} when the query raises.
get_volumes_for_manga(queryOk) == IF queryOk /\ series > 0 THEN db[1] ELSE <<>>

\* all_volumes = set(vol_num for vol_num, _ in r2_volumes) | set(db_volume_pages.keys())
all_volumes(r2v, dbp) == {r2v[i][1] : i \in DOMAIN r2v} \cup DOMAIN dbp

\* Fault: the diff visits the inventory entry by entry, then the numbers the
\* database alone has.
DiffOrderPerEntry(r2v, dbp) ==
    [i \in 1..Len(r2v) |-> r2v[i][1]] \o sorted(DOMAIN dbp \ {r2v[i][1] : i \in DOMAIN r2v})

\* Fault: the diff visits the numbers without sorting them (here: descending).
DiffOrderUnsorted(r2v, dbp) ==
    LET s == sorted(all_volumes(r2v, dbp)) IN [i \in 1..Len(s) |-> s[Len(s) + 1 - i]]

\* "for vol_num in sorted(all_volumes)": the order the diff visits volumes in.
DiffOrder(r2v, dbp) == sorted(all_volumes(r2v, dbp))

\* STEP 3 and the start of STEP 4: read the database volumes, build
\* db_volume_pages, reset the diff's lists, and start the loop.
UvpFetchDbVolumes ==
    /\ Uvp /\ pc = "step3"
    /\ \E queryOk \in BOOLEAN :
        /\ db_volume_pages' = get_volumes_for_manga(queryOk)
        /\ read_error' = Raised(read_error, "get_volumes_for_manga", queryOk)
    /\ todo' = DiffOrder(r2_volumes, db_volume_pages')
    /\ table' = <<>>
    /\ changes_needed' = <<>>
    /\ matches' = 0
    /\ needs_update' = <<>>
    /\ missing_volumes' = <<>>
    /\ unexpected_volumes' = <<>>
    /\ pc' = "diff"
    /\ UNCHANGED <<script, envVars, encode_error, put_error, encoded, posted, list_error, volVars, fileVars, bucket, dbVars, message, confirm, idx, manga,
                   r2_volumes, countVars, toDbVars, fullVars>>

\* next((count for v, count in r2_volumes if v == vol_num), None)
RECURSIVE r2_count(_, _)
r2_count(r2v, vol_num) ==
    IF r2v = <<>> THEN None
    ELSE IF Head(r2v)[1] = vol_num THEN Head(r2v)[2]
    ELSE r2_count(Tail(r2v), vol_num)

\* Fault: the count is read from the database again for every volume.
db_count_live(dbp, vol_num) ==
    IF series > 0 /\ vol_num \in DOMAIN db[1] THEN db[1][vol_num] ELSE None

\* db_volume_pages.get(vol_num, None)
db_count(dbp, vol_num) == IF vol_num \in DOMAIN dbp THEN dbp[vol_num] ELSE None

Row(v, r2c, dbc, status) == [vol |-> v, r2 |-> r2c, db |-> dbc, status |-> status]

\* Fault: the update carries the database's count.
UpdateEntryDbCount(vol_num, r2c, dbc) == <<vol_num, dbc, "update">>
\* Fault: a volume the database alone has is queued for an update.
OrphanEntriesAsUpdate(vol_num, dbc) == <<<<vol_num, dbc, "update">>>>

\* The change entry of a volume found in both sources with different counts.
UpdateEntry(vol_num, r2c, dbc) == <<vol_num, r2c, "update">>
\* Fault: the add carries the volume number in place of the file count.
AddEntryNumberAsCount(vol_num, r2c) == <<vol_num, vol_num, "add">>
\* The change entry of a volume found in the bucket alone.
AddEntry(vol_num, r2c) == <<vol_num, r2c, "add">>
\* What a volume found in the database alone adds to changes_needed: nothing.
OrphanEntries(vol_num, dbc) == <<>>

\* One iteration of "for vol_num in sorted(all_volumes)".
UvpDiffStep ==
    /\ Uvp /\ pc = "diff" /\ todo # <<>>
    /\ LET vol_num == Head(todo)
           r2c == r2_count(r2_volumes, vol_num)
           dbc == db_count(db_volume_pages, vol_num)
       IN IF r2c # None /\ dbc # None
          THEN IF r2c = dbc
               THEN /\ matches' = matches + 1
                    /\ table' = Append(table, Row(vol_num, r2c, dbc, "Match"))
                    /\ UNCHANGED <<needs_update, changes_needed, missing_volumes,
                                   unexpected_volumes>>
               ELSE /\ needs_update' = Append(needs_update, <<vol_num, r2c, dbc>>)
                    /\ changes_needed' = Append(changes_needed, UpdateEntry(vol_num, r2c, dbc))
                    /\ table' = Append(table, Row(vol_num, r2c, dbc, "Needs Update"))
                    /\ UNCHANGED <<matches, missing_volumes, unexpected_volumes>>
          ELSE IF r2c # None /\ dbc = None
          THEN /\ missing_volumes' = Append(missing_volumes, <<vol_num, r2c>>)
               /\ changes_needed' = Append(changes_needed, AddEntry(vol_num, r2c))
               /\ table' = Append(table, Row(vol_num, r2c, None, "Missing from DB"))
               /\ UNCHANGED <<matches, needs_update, unexpected_volumes>>
          ELSE IF r2c = None /\ dbc # None
          THEN /\ unexpected_volumes' = Append(unexpected_volumes, <<vol_num, dbc>>)
               /\ changes_needed' = changes_needed \o OrphanEntries(vol_num, dbc)
               /\ table' = Append(table, Row(vol_num, None, dbc, "Missing from R2"))
               /\ UNCHANGED <<matches, needs_update, missing_volumes>>
          ELSE UNCHANGED <<matches, needs_update, changes_needed, missing_volumes,
                           unexpected_volumes, table>>
    /\ todo' = Tail(todo)
    /\ UNCHANGED <<script, pc, envVars, errVars, volVars, fileVars, bucket, dbVars, message, confirm, idx, manga,
                   r2_volumes, db_volume_pages, countVars, toDbVars, fullVars>>

\* Fault: the dry-run flag is not honoured.
DryRunIgnored == FALSE

\* "if dry_run: ... raise typer.Exit(0)"
DryRunStops == dry_run

\* After the loop the summary is printed; a dry run and an empty change set
\* end the run; otherwise the prompt (unless --yes) and the apply loop follow.
UvpReport ==
    /\ Uvp /\ pc = "diff" /\ todo = <<>>
    /\ IF DryRunStops THEN pc' = "exit0" /\ message' = "Dry run complete"
       ELSE IF changes_needed = <<>> THEN pc' = "exit0" /\ message' = "No changes needed"
       ELSE IF ~yes THEN pc' = "confirm" /\ message' = message
       ELSE pc' = "apply" /\ message' = message
    /\ idx' = 1
    /\ updated' = 0 /\ added' = 0 /\ skipped' = 0 /\ failed' = 0
    /\ UNCHANGED <<script, envVars, errVars, volVars, fileVars, bucket, dbVars, confirm, manga, r2_volumes,
                   db_volume_pages, diffVars, toDbVars, fullVars>>

\* Fault: only the single letter cancels.
CancelsOnlyN(c) == c = <<"N">>

\* Fault: only the whole word cancels.
CancelsOnlyNo(c) == c = <<"N", "O">>

\* "if confirm in ["N", "NO"]": whether the answer read cancels the run.
Cancels(c) == Declined(c)

\* STEP 5: input(...).strip().upper(); N or NO cancels. End of input raises
\* EOFError, which main() does not catch.
UvpConfirm ==
    /\ Uvp /\ pc = "confirm"
    /\ \/ \E raw \in RawAnswers :
            /\ confirm' = Upper(Strip(raw))
            /\ IF Cancels(confirm')
               THEN pc' = "exit0" /\ message' = "Operation cancelled"
               ELSE pc' = "apply" /\ message' = message
       \/ /\ confirm' = confirm
          /\ pc' = "crash"
          /\ message' = "EOFError"
    /\ UNCHANGED <<script, envVars, errVars, volVars, fileVars, bucket, dbVars, idx, uvpVars, toDbVars, fullVars>>

\* update_volume_page_count: True when the mutation returns, False when it raises.
update_volume_page_count(outcome) == outcome = "ok"

\* The except clause of the apply loop: count the failure, stop at the limit.
AfterFailure ==
    /\ failed' = failed + 1
    /\ IF failed' >= FailureLimit
       THEN pc' = "summary" /\ idx' = idx /\ message' = "Too many failures, stopping"
       ELSE pc' = pc /\ idx' = idx + 1 /\ message' = message

\* progress.update(task, advance=1): the loop goes on with the next entry.
NextEntry == pc' = pc /\ idx' = idx + 1 /\ message' = message

\* action == "add": the mutation is issued directly; any exception is a failure.
UvpApplyAdd ==
    /\ Uvp /\ pc = "apply" /\ idx <= Len(changes_needed)
    /\ changes_needed[idx][3] = "add"
    /\ LET vol_num == changes_needed[idx][1]
           file_count == changes_needed[idx][2]
       IN \E outcome \in AddVolumeOutcomes(db[1], vol_num) :
            /\ calls' = Append(calls, Call("addVolume", vol_num, file_count, outcome))
            /\ IF outcome = "ok"
               THEN /\ db' = AddTo(1, vol_num, file_count)
                    /\ added' = added + 1
                    /\ NextEntry
                    /\ UNCHANGED <<updated, skipped, failed>>
               ELSE /\ db' = db
                    /\ AfterFailure
                    /\ UNCHANGED <<updated, added, skipped>>
    /\ UNCHANGED <<script, envVars, errVars, volVars, fileVars, bucket, series, confirm, manga, r2_volumes,
                   db_volume_pages, diffVars, toDbVars, fullVars>>

\* Fault: an update whose call returned False is counted as a failure.
UpdateNotDoneAsFailure ==
    /\ AfterFailure
    /\ UNCHANGED <<updated, added, skipped>>

\* Fault: an update whose call returned False is counted nowhere.
UpdateNotDoneUncounted ==
    /\ NextEntry
    /\ UNCHANGED <<updated, added, skipped, failed>>

\* What the apply loop records for an update whose call returned False.
UpdateNotDone ==
    /\ skipped' = skipped + 1
    /\ NextEntry
    /\ UNCHANGED <<updated, added, failed>>

\* action == "update": success = update_volume_page_count(...).
UvpApplyUpdate ==
    /\ Uvp /\ pc = "apply" /\ idx <= Len(changes_needed)
    /\ changes_needed[idx][3] = "update"
    /\ LET vol_num == changes_needed[idx][1]
           file_count == changes_needed[idx][2]
       IN \E outcome \in UpdateVolumeOutcomes(db[1], vol_num) :
            /\ calls' = Append(calls, Call("updateVolume", vol_num, file_count, outcome))
            /\ db' = IF outcome = "ok" THEN UpdateIn(1, vol_num, file_count) ELSE db
            /\ IF update_volume_page_count(outcome)
               THEN /\ updated' = updated + 1
                    /\ NextEntry
                    /\ UNCHANGED <<added, skipped, failed>>
               ELSE UpdateNotDone
    /\ UNCHANGED <<script, envVars, errVars, volVars, fileVars, bucket, series, confirm, manga, r2_volumes,
                   db_volume_pages, diffVars, toDbVars, fullVars>>

\* The loop is exhausted: the final summary follows.
UvpApplyEnd ==
    /\ Uvp /\ pc = "apply" /\ idx > Len(changes_needed)
    /\ pc' = "summary"
    /\ UNCHANGED <<script, envVars, errVars, volVars, fileVars, bucket, dbVars, message, confirm, idx, uvpVars,
                   toDbVars, fullVars>>

\* FINAL SUMMARY: the counts are printed and main() returns.
UvpSummary ==
    /\ Uvp /\ pc = "summary"
    /\ pc' = "done"
    /\ UNCHANGED <<script, envVars, errVars, volVars, fileVars, bucket, dbVars, message, confirm, idx, uvpVars,
                   toDbVars, fullVars>>

\* The steps of main() up to and including the diff's report.
NextDiff ==
    \/ UvpStart \/ UvpCheckManga \/ UvpScanBucket \/ UvpFetchDbVolumes
    \/ UvpDiffStep \/ UvpReport

UvpNext ==
    \/ NextDiff \/ UvpConfirm
    \/ UvpApplyAdd \/ UvpApplyUpdate \/ UvpApplyEnd \/ UvpSummary

\* ------------------------------------------------- upload_manga_to_db.main
ToDb == script = "upload_manga_to_db"

\* "if not convex_client: ... raise typer.Exit(1)"
ToDbStart ==
    /\ ToDb /\ pc = "start"
    /\ IF convex_client
       THEN pc' = "step1" /\ message' = message
       ELSE pc' = "exit1" /\ message' = "Convex client not initialized"
    /\ UNCHANGED <<script, envVars, errVars, volVars, fileVars, bucket, dbVars, confirm, idx, uvpVars, toDbVars, fullVars>>

\* STEP 1: volumes = list_volume_folders(slug), as in update_volume_pages.
ToDbScanBucket ==
    /\ ToDb /\ pc = "step1"
    /\ \E failAt \in 0..ListingCalls(bucket) :
        LET r == list_volume_folders_call(bucket, failAt)
        IN /\ list_error' = r.failed
           /\ IF r.raised = ""
              THEN /\ volumes' = r.volumes
                   /\ IF volumes' = <<>>
                      THEN pc' = "exit1" /\ message' = "No volume folders found in R2"
                      ELSE pc' = "step2" /\ message' = message
              ELSE /\ volumes' = volumes
                   /\ pc' = "exit1"
                   /\ message' = r.raised
    /\ UNCHANGED <<script, envVars, read_error, encode_error, put_error, encoded, posted, volVars, fileVars,
                   bucket, dbVars, confirm, idx, uvpVars, manga_id,
                   added_volumes, skipped_volumes, fullVars>>

\* get_existing_manga_by_slug: the id of the series with the slug in
\* manga:listManga, or None when there is none or the query raises.
get_existing_manga_by_slug(queryOk) == IF queryOk /\ series > 0 THEN 1 ELSE None

\* STEP 2: an existing series is appended to, after the prompt unless --yes.
ToDbCheckExisting ==
    /\ ToDb /\ pc = "step2"
    /\ \E queryOk \in BOOLEAN :
        /\ manga_id' = get_existing_manga_by_slug(queryOk)
        /\ read_error' = Raised(read_error, "get_existing_manga_by_slug", queryOk)
        /\ pc' = IF manga_id' # None /\ ~yes THEN "confirm" ELSE "step3"
    /\ UNCHANGED <<script, envVars, encode_error, put_error, encoded, posted, list_error, volVars, fileVars, bucket, dbVars, message, confirm, idx, uvpVars,
                   volumes, added_volumes, skipped_volumes, fullVars>>

\* input(...).strip().upper(); N or NO cancels; EOFError is not caught.
ToDbConfirm ==
    /\ ToDb /\ pc = "confirm"
    /\ \/ \E raw \in RawAnswers :
            /\ confirm' = Upper(Strip(raw))
            /\ IF Cancels(confirm')
               THEN pc' = "exit0" /\ message' = "Operation cancelled"
               ELSE pc' = "step3" /\ message' = message
       \/ /\ confirm' = confirm
          /\ pc' = "crash"
          /\ message' = "EOFError"
    /\ UNCHANGED <<script, envVars, errVars, volVars, fileVars, bucket, dbVars, idx, uvpVars, toDbVars, fullVars>>

\* How a manga:createManga call can end.
CreateMangaOutcomes == {"ok", "error"}

\* STEP 3, first half: create the series if no id is known yet.
ToDbCreateManga ==
    /\ ToDb /\ pc = "step3"
    /\ IF manga_id = None
       THEN \E outcome \in CreateMangaOutcomes :
              /\ calls' = Append(calls, Call("createManga", 0, Len(volumes), outcome))
              /\ IF outcome = "ok"
                 THEN /\ series' = series + 1
                      /\ db' = Append(db, <<>>)
                      /\ manga_id' = series + 1
                      /\ pc' = "add" /\ message' = message
                 ELSE /\ UNCHANGED <<series, db, manga_id>>
                      /\ pc' = "exit1" /\ message' = "Failed to create manga"
       ELSE /\ UNCHANGED <<dbVars, manga_id, message>>
            /\ pc' = "add"
    /\ idx' = 1
    /\ UNCHANGED <<script, envVars, errVars, volVars, fileVars, bucket, confirm, uvpVars, volumes, added_volumes,
                   skipped_volumes, fullVars>>

\* Fault: every rejection is taken for a duplicate.
add_volume_result_lenient(outcome) ==
    IF outcome = "ok" THEN "id" ELSE "None"

\* add_volume of upload_manga_to_db: the id when the mutation returns, None
\* when it raises with "already exists" or "duplicate", else the exception.
add_volume_result(outcome) ==
    IF outcome = "ok" THEN "id" ELSE IF outcome = "duplicate" THEN "None" ELSE "raise"

\* One iteration of "for i, (vol_num, file_count) in enumerate(volumes, 1)".
ToDbAddVolume ==
    /\ ToDb /\ pc = "add" /\ idx <= Len(volumes)
    /\ LET vol_num == volumes[idx][1]
           file_count == volumes[idx][2]
       IN \E outcome \in AddVolumeOutcomes(db[manga_id], vol_num) :
            /\ calls' = Append(calls, Call("addVolume", vol_num, file_count, outcome))
            /\ db' = IF outcome = "ok" THEN AddTo(manga_id, vol_num, file_count) ELSE db
            /\ CASE add_volume_result(outcome) = "id" ->
                      /\ added_volumes' = Append(added_volumes, <<vol_num, file_count>>)
                      /\ skipped_volumes' = skipped_volumes
                      /\ NextEntry
                 [] add_volume_result(outcome) = "None" ->
                      /\ skipped_volumes' = Append(skipped_volumes, <<vol_num, file_count>>)
                      /\ added_volumes' = added_volumes
                      /\ NextEntry
                 [] OTHER ->
                      /\ UNCHANGED <<added_volumes, skipped_volumes, idx>>
                      /\ pc' = "exit1" /\ message' = "Volume failed"
    /\ UNCHANGED <<script, envVars, errVars, volVars, fileVars, bucket, series, confirm, uvpVars, volumes, manga_id,
                   fullVars>>

\* The loop is exhausted: the final summary is printed and main() returns.
ToDbSummary ==
    /\ ToDb /\ pc = "add" /\ idx > Len(volumes)
    /\ pc' = "done"
    /\ UNCHANGED <<script, envVars, errVars, volVars, fileVars, bucket, dbVars, message, confirm, idx, uvpVars,
                   toDbVars, fullVars>>



\* -------------------------------------------------- upload_full_manga.main
Full == script = "upload_full_manga"

\* A fresh ProcessPoolExecutor with one submitted job per entry of volumes.
NewPool(vs) ==
    /\ job_status' = [j \in 1..Len(vs) |-> "pending"]
    /\ job_result' = [j \in 1..Len(vs) |-> None]
    /\ collected' = {}

\* No file of any job has failed yet.
NoErrors(vs) == [j \in 1..Len(vs) |-> 0]

Running == {j \in DOMAIN job_status : job_status[j] = "running"}
Pending == {j \in DOMAIN job_status : job_status[j] = "pending"}
Finished == {j \in DOMAIN job_status : job_status[j] \in {"done", "failed"}}

\* STEP 1: find_volume_folders, then the branch on --skip-convert.
FullDiscover ==
    /\ Full /\ pc = "start"
    /\ IF ~source_exists
       THEN /\ pc' = "exit1" /\ message' = "Source path does not exist"
            /\ UNCHANGED <<volumes, poolVars>>
       ELSE /\ volumes' = find_volume_folders(source)
            /\ IF volumes' = <<>>
               THEN /\ pc' = "exit1" /\ message' = "No volume folders found"
                    /\ UNCHANGED poolVars
               ELSE IF skip_convert
               THEN /\ pc' = "count" /\ message' = message
                    /\ UNCHANGED poolVars
               ELSE /\ pc' = "convert" /\ message' = message
                    /\ NewPool(volumes')
    /\ encode_error' = IF pc' = "convert" THEN NoErrors(volumes') ELSE encode_error
    /\ UNCHANGED <<script, envVars, list_error, read_error, put_error, encoded, posted, volVars, fileVars, bucket, dbVars, confirm, idx, uvpVars, manga_id,
                   added_volumes, skipped_volumes, outdir, volume_page_counts, puts>>

\* The process pool takes the submitted jobs in submission order and runs at
\* most max_workers of them at a time; it goes on doing so while main() is
\* leaving the with block after typer.Exit(1).
PoolPhases == {"convert", "convert_abort", "upload", "upload_abort"}

\* Fault: the pool starts a job whenever one is waiting.
WorkerUnbounded == Cardinality(Running) < Len(job_status)

\* ProcessPoolExecutor(max_workers=max_workers): a worker process is idle.
WorkerFree == Cardinality(Running) < max_workers

FullJobStart ==
    /\ Full /\ pc \in PoolPhases
    /\ Pending # {}
    /\ WorkerFree
    /\ job_status' = [job_status EXCEPT ![Min(Pending)] = "running"]
    /\ UNCHANGED <<script, pc, envVars, errVars, volVars, fileVars, bucket, dbVars, message, confirm, idx, uvpVars,
                   toDbVars, outdir, volume_page_counts, job_result, collected, puts>>

\* convert_single_volume on a folder of n images whose first failing image is
\* number k (k = n + 1: none fails): the outputs 001..k-1 are written; the
\* result is the converted count, or the exception.
convert_single_volume(out, vol, n, k) ==
    IF n = 0 THEN [status |-> "failed", result |-> None, out |-> out, error |-> 0]
    ELSE [status |-> IF k > n THEN "done" ELSE "failed",
          result |-> IF k > n THEN n ELSE None,
          out |-> [out EXCEPT ![vol] = @ \cup 1..(k - 1)],
          error |-> IF k > n THEN 0 ELSE k]

FullConvertJob ==
    /\ Full /\ pc \in {"convert", "convert_abort"}
    /\ \E j \in Running :
        LET vol == volumes[j][1]
            n == source[volumes[j][2]]
        IN \E k \in 1..(n + 1) :
            LET r == convert_single_volume(outdir, vol, n, k)
            IN /\ outdir' = r.out
               /\ job_status' = [job_status EXCEPT ![j] = r.status]
               /\ job_result' = [job_result EXCEPT ![j] = r.result]
               /\ encode_error' = [encode_error EXCEPT ![j] = r.error]
               /\ encoded' = encoded \cup {<<j, i>> : i \in 1..Min({k - 1, n})}
    /\ UNCHANGED <<script, pc, envVars, list_error, read_error, put_error, posted, volVars, fileVars, bucket, dbVars, message, confirm, idx, uvpVars,
                   toDbVars, volume_page_counts, collected, puts>>

\* sorted(webp_folder.glob("*.webp")), by page number
webp_files(out, vol) == sorted(out[vol])

\* Fault: a failed job removes the objects it has put.
upload_single_volume_to_r2_rollback(b, out, vol, k) ==
    LET files == sorted(out[vol])
        sent == {files[i] : i \in 1..Min({k - 1, Len(files)})}
    IN IF ~r2_credentials \/ files = <<>>
       THEN [status |-> "failed", result |-> None, bucket |-> b, sent |-> {}, error |-> 0]
       ELSE [status |-> IF k > Len(files) THEN "done" ELSE "failed",
             result |-> IF k > Len(files) THEN Len(files) ELSE None,
             bucket |-> IF k > Len(files) THEN [b EXCEPT ![FolderOf(vol)] = @ \cup sent] ELSE b,
             sent |-> sent,
             error |-> IF k > Len(files) THEN 0 ELSE k]

\* upload_single_volume_to_r2 when the first failing put is number k
\* (k = Len(files) + 1: none fails): the files before it are in storage.
upload_single_volume_to_r2(b, out, vol, k) ==
    LET files == webp_files(out, vol)
        sent == {files[i] : i \in 1..Min({k - 1, Len(files)})}
    IN IF ~r2_credentials \/ files = <<>>
       THEN [status |-> "failed", result |-> None, bucket |-> b, sent |-> {}, error |-> 0]
       ELSE [status |-> IF k > Len(files) THEN "done" ELSE "failed",
             result |-> IF k > Len(files) THEN Len(files) ELSE None,
             bucket |-> [b EXCEPT ![FolderOf(vol)] = @ \cup sent],
             sent |-> sent,
             error |-> IF k > Len(files) THEN 0 ELSE k]

FullUploadJob ==
    /\ Full /\ pc \in {"upload", "upload_abort"}
    /\ \E j \in Running :
        LET vol == volumes[j][1]
        IN \E k \in 1..(Cardinality(outdir[vol]) + 1) :
            LET r == upload_single_volume_to_r2(bucket, outdir, vol, k)
            IN /\ bucket' = r.bucket
               /\ puts' = puts \cup {<<vol, p>> : p \in r.sent}
               /\ job_status' = [job_status EXCEPT ![j] = r.status]
               /\ job_result' = [job_result EXCEPT ![j] = r.result]
               /\ put_error' = [put_error EXCEPT ![j] = r.error]
               /\ posted' = posted \cup {<<j, i>> : i \in 1..Cardinality(r.sent)}
    /\ UNCHANGED <<script, pc, envVars, list_error, read_error, encode_error, encoded, volVars, fileVars, dbVars, message, confirm, idx, uvpVars,
                   toDbVars, outdir, volume_page_counts, collected>>

\* volume_page_counts[vol_num] = converted
SetCount(counts, vol, n) == [x \in DOMAIN counts \cup {vol} |-> IF x = vol THEN n ELSE counts[x]]

\* One iteration of "for future in as_completed(futures)": the result of a
\* finished job is recorded; its exception raises typer.Exit(1).
FullCollect ==
    /\ Full /\ pc \in {"convert", "upload"}
    /\ \E j \in Finished \ collected :
        IF job_status[j] = "done"
        THEN /\ collected' = collected \cup {j}
             /\ volume_page_counts' =
                    IF pc = "convert"
                    THEN SetCount(volume_page_counts, volumes[j][1], job_result[j])
                    ELSE volume_page_counts
             /\ UNCHANGED <<pc, message>>
        ELSE /\ pc' = IF pc = "convert" THEN "convert_abort" ELSE "upload_abort"
             /\ message' = IF pc = "convert" THEN "Volume failed" ELSE "Volume upload failed"
             /\ UNCHANGED <<collected, volume_page_counts>>
    /\ UNCHANGED <<script, envVars, errVars, volVars, fileVars, bucket, dbVars, confirm, idx, uvpVars, toDbVars,
                   outdir, job_status, job_result, puts>>

\* Fault: the loop over the futures ends with the first result.
SomeCollected == collected # {}

\* Fault: the futures of failed jobs are never yielded.
DoneCollected == {j \in DOMAIN job_status : job_status[j] = "done"} \subseteq collected

\* "for future in as_completed(futures)" is exhausted.
AllCollected == collected = DOMAIN job_status

\* Every future was yielded: the with block ends and main() goes on.
FullPoolExit ==
    /\ Full /\ pc \in {"convert", "upload"}
    /\ AllCollected
    /\ pc' = IF pc = "convert" THEN "prep" ELSE "db"
    /\ UNCHANGED <<script, envVars, errVars, volVars, fileVars, bucket, dbVars, message, confirm, idx, uvpVars,
                   toDbVars, fullVars>>

\* Fault: leaving the with block cancels the jobs not yet started.
PoolCancelled == Running = {}

\* ProcessPoolExecutor.__exit__ is shutdown(wait=True): it returns once every
\* submitted job has run.
PoolDrained == Finished = DOMAIN job_status

\* typer.Exit(1) leaves the with block: the executor's shutdown waits for the
\* jobs still pending or running, then the exit takes effect.
FullAbort ==
    /\ Full /\ pc \in {"convert_abort", "upload_abort"}
    /\ PoolDrained
    /\ pc' = "exit1"
    /\ UNCHANGED <<script, envVars, errVars, volVars, fileVars, bucket, dbVars, message, confirm, idx, uvpVars,
                   toDbVars, fullVars>>

\* --skip-convert: page_count = len(list(volume_output.glob("*.webp")))
RECURSIVE CountExisting(_, _, _)
CountExisting(vs, out, counts) ==
    IF vs = <<>> THEN counts
    ELSE CountExisting(Tail(vs), out, SetCount(counts, Head(vs)[1], Cardinality(out[Head(vs)[1]])))

FullCountExisting ==
    /\ Full /\ pc = "count"
    /\ volume_page_counts' = CountExisting(volumes, outdir, <<>>)
    /\ pc' = "prep"
    /\ UNCHANGED <<script, envVars, errVars, volVars, fileVars, bucket, dbVars, message, confirm, idx, uvpVars,
                   toDbVars, outdir, poolVars, puts>>

\* STEP 3: "if not skip_r2:" the summary table, then the prompt unless --yes.
FullPrep ==
    /\ Full /\ pc = "prep"
    /\ IF skip_r2 THEN pc' = "db" /\ UNCHANGED <<poolVars, put_error>>
       ELSE IF ~yes THEN pc' = "confirm" /\ UNCHANGED <<poolVars, put_error>>
       ELSE pc' = "upload" /\ NewPool(volumes) /\ put_error' = NoErrors(volumes)
    /\ UNCHANGED <<script, envVars, list_error, read_error, encode_error, encoded, posted, volVars, fileVars, bucket, dbVars, message, confirm, idx, uvpVars,
                   toDbVars, outdir, volume_page_counts, puts>>

\* input(...).strip().upper(); N or NO cancels, and so does EOFError.
FullConfirm ==
    /\ Full /\ pc = "confirm"
    /\ \/ \E raw \in RawAnswers :
            /\ confirm' = Upper(Strip(raw))
            /\ IF Cancels(confirm')
               THEN pc' = "exit0" /\ message' = "Upload cancelled by user"
                    /\ UNCHANGED <<poolVars, put_error>>
               ELSE /\ pc' = "upload" /\ message' = message /\ NewPool(volumes)
                    /\ put_error' = NoErrors(volumes)
       \/ /\ confirm' = confirm
          /\ pc' = "exit0"
          /\ message' = "Upload cancelled"
          /\ UNCHANGED <<poolVars, put_error>>
    /\ UNCHANGED <<script, envVars, list_error, read_error, encode_error, encoded, posted, volVars, fileVars, bucket, dbVars, idx, uvpVars, toDbVars, outdir,
                   volume_page_counts, puts>>

\* STEP 4: "if not skip_db:" the client check, then create_manga, always.
FullCreateManga ==
    /\ Full /\ pc = "db"
    /\ IF skip_db
       THEN pc' = "done" /\ UNCHANGED <<dbVars, manga_id, message>>
       ELSE IF ~convex_client
       THEN /\ pc' = "exit1" /\ message' = "Convex client not available"
            /\ UNCHANGED <<dbVars, manga_id>>
       ELSE \E outcome \in CreateMangaOutcomes :
              /\ calls' = Append(calls, Call("createManga", 0, Len(volumes), outcome))
              /\ IF outcome = "ok"
                 THEN /\ series' = series + 1
                      /\ db' = Append(db, <<>>)
                      /\ manga_id' = series + 1
                      /\ pc' = "add" /\ message' = message
                 ELSE /\ UNCHANGED <<series, db, manga_id>>
                      /\ pc' = "exit1" /\ message' = "Failed to create manga"
    /\ idx' = 1
    /\ UNCHANGED <<script, envVars, errVars, volVars, fileVars, bucket, confirm, uvpVars, volumes, added_volumes,
                   skipped_volumes, fullVars>>

\* One iteration of "for vol_num, _ in volumes", with
\* page_count = volume_page_counts.get(vol_num, 0): add_volume re-raises every
\* exception, and main() turns it into typer.Exit(1).
FullAddVolume ==
    /\ Full /\ pc = "add" /\ idx <= Len(volumes)
    /\ LET vol_num == volumes[idx][1]
           n == IF vol_num \in DOMAIN volume_page_counts
                THEN volume_page_counts[vol_num] ELSE 0
       IN \E outcome \in AddVolumeOutcomes(db[manga_id], vol_num) :
            /\ calls' = Append(calls, Call("addVolume", vol_num, n, outcome))
            /\ IF outcome = "ok"
               THEN /\ db' = AddTo(manga_id, vol_num, n)
                    /\ NextEntry
               ELSE /\ db' = db /\ idx' = idx
                    /\ pc' = "exit1" /\ message' = "Failed to add Volume"
    /\ UNCHANGED <<script, envVars, errVars, volVars, fileVars, bucket, series, confirm, uvpVars, toDbVars, fullVars>>

\* The loop is exhausted: the final summary is printed and main() returns.
FullSummary ==
    /\ Full /\ pc = "add" /\ idx > Len(volumes)
    /\ pc' = "done"
    /\ UNCHANGED <<script, envVars, errVars, volVars, fileVars, bucket, dbVars, message, confirm, idx, uvpVars,
                   toDbVars, fullVars>>

FullNext ==
    \/ FullDiscover \/ FullJobStart \/ FullConvertJob \/ FullUploadJob \/ FullCollect
    \/ FullPoolExit \/ FullAbort \/ FullCountExisting \/ FullPrep \/ FullConfirm
    \/ FullCreateManga \/ FullAddVolume \/ FullSummary

\* ------------------------------------------------------ upload_volume.main
Vol == script = "upload_volume"

\* upload_volume's extract_volume_number: re.search(r"v(\d+)", name,
\* re.IGNORECASE), a "v" directly followed by the digits.
UploadVolume_extract_volume_number(f) ==
    IF f.digits # <<>> /\ f.sep = "" /\ f.stem \in {"v", "V"} THEN ParseInt(f.digits) ELSE 0

\* find_volume_folder: the first directory whose number is volume_num.
RECURSIVE find_volume_folder(_, _, _)
find_volume_folder(src, volume_num, i) ==
    IF i > Len(SrcFolders) THEN None
    ELSE IF src[i] # None /\ UploadVolume_extract_volume_number(SrcFolders[i]) = volume_num
         THEN i
         ELSE find_volume_folder(src, volume_num, i + 1)

\* prompt_yes_no: the default on an empty answer, else "yes" or "y".
prompt_yes_no(raw, default) ==
    LET lower(s) ==
            [i \in 1..Len(s) |-> CASE s[i] = "N" -> "n" [] s[i] = "Y" -> "y" [] OTHER -> s[i]]
        response == lower(Strip(raw))
    IN IF response = <<>> THEN default
       ELSE response \in { <<"y">>, <<"y", "e", "s">> }

\* The upload_volume options: no --yes, no --dry-run, no worker pool.
InitVolume ==
    /\ script = "upload_volume"
    /\ convex_client \in BOOLEAN
    /\ r2_credentials \in BOOLEAN
    /\ yes = FALSE
    /\ dry_run = FALSE
    /\ skip_convert \in BOOLEAN /\ skip_r2 = FALSE /\ skip_db = FALSE
    /\ max_workers = 1
    /\ source_exists \in BOOLEAN
    /\ source \in IF source_exists THEN SourceTrees
                  ELSE {[i \in 1..Len(SrcFolders) |-> None]}
    /\ volume \in 1..NumSrcVols
    /\ listing = <<>> /\ NoUploadJob
    /\ outdir \in OutputTrees
    /\ bucket \in {Published([v \in 1..NumSrcVols |-> {}]), Published(outdir)}
    /\ series \in 0..1
    /\ db \in IF series = 0 THEN {<<>>} ELSE {<<<<>>>>, <<[v \in {1} |-> MaxImages]>>}
    /\ db0 = db
    /\ calls = <<>>
    /\ InitLocals

\* STEP 1: the skip question, then select_bucket_folder, whose menu returns
\* -1 on "q".  console.input raises EOFError on a closed input.
VolAskBucket ==
    /\ Vol /\ pc = "start"
    /\ \/ \E raw \in RawAnswers, cancelled \in BOOLEAN :
            /\ skip_bucket' = prompt_yes_no(raw, FALSE)
            /\ IF ~skip_bucket' /\ cancelled
               THEN pc' = "exit0" /\ message' = "Cancelled by user"
               ELSE pc' = "find" /\ message' = message
       \/ /\ pc' = "crash" /\ message' = "EOFError"
          /\ skip_bucket' = skip_bucket
    /\ UNCHANGED <<script, envVars, errVars, fileVars, bucket, dbVars, confirm, idx, uvpVars,
                   toDbVars, fullVars, vol_page_count, converted, errors, uploaded>>

\* STEP 2, first half: find_volume_folder, and --skip-convert's count of the
\* output files already there.  idx holds the folder found.
VolFindFolder ==
    /\ Vol /\ pc = "find"
    /\ LET volume_folder == find_volume_folder(source, volume, 1)
       IN IF volume_folder = None
          THEN /\ pc' = "exit1" /\ message' = "Volume folder not found"
               /\ UNCHANGED <<idx, vol_page_count>>
          ELSE /\ idx' = volume_folder
               /\ message' = message
               /\ IF skip_convert
                  THEN pc' = "upload" /\ vol_page_count' = Cardinality(outdir[volume])
                  ELSE pc' = "convert" /\ vol_page_count' = vol_page_count
    /\ UNCHANGED <<script, envVars, errVars, fileVars, bucket, dbVars, confirm, uvpVars,
                   toDbVars, fullVars, skip_bucket, converted, errors, uploaded>>

\* convert_volume on a folder of n images of which those in bad fail to
\* encode: every image is tried, image i goes to output pad_number(i), and
\* the counts of successes and failures are returned.
convert_volume(out, vol, n, bad) ==
    [out |-> [out EXCEPT ![vol] = @ \cup (1..n \ bad)],
     converted |-> n - Cardinality(bad),
     errors |-> Cardinality(bad),
     encoded |-> {<<1, i>> : i \in 1..n \ bad}]

\* The first member of a set of failing indices, 0 when there is none.
FirstError(bad) == IF bad = {} THEN 0 ELSE Min(bad)

\* STEP 2, second half: ValueError on a folder without images is not caught.
VolConvert ==
    /\ Vol /\ pc = "convert"
    /\ LET n == source[idx]
       IN IF n = 0
          THEN /\ pc' = "crash" /\ message' = "No PNG files found"
               /\ UNCHANGED <<outdir, converted, errors, vol_page_count, encode_error, encoded>>
          ELSE \E bad \in SUBSET (1..n) :
                LET r == convert_volume(outdir, volume, n, bad)
                IN /\ outdir' = r.out
                   /\ converted' = r.converted
                   /\ errors' = r.errors
                   /\ vol_page_count' = r.converted
                   /\ encode_error' = <<FirstError(bad)>>
                   /\ encoded' = r.encoded
                   /\ pc' = "upload" /\ message' = message
    /\ UNCHANGED <<script, envVars, list_error, read_error, put_error, posted, fileVars, bucket, dbVars, confirm, idx,
                   uvpVars, toDbVars, volume_page_counts, poolVars, puts, skip_bucket, uploaded>>

\* upload_to_r2 when the puts of the files at the positions in bad fail:
\* every file is tried, and the counts are returned.
upload_to_r2(b, out, vol, bad) ==
    LET files == webp_files(out, vol)
        ok == DOMAIN files \ bad
    IN [bucket |-> [b EXCEPT ![FolderOf(vol)] = @ \cup {files[i] : i \in ok}],
        uploaded |-> Cardinality(ok),
        errors |-> Cardinality(bad),
        posted |-> {<<1, i>> : i \in ok},
        puts |-> {<<vol, files[i]>> : i \in ok}]

\* STEP 3: "if not skip_bucket:"; ValueError without credentials or without
\* output files is not caught.
VolUpload ==
    /\ Vol /\ pc = "upload"
    /\ IF skip_bucket
       THEN /\ pc' = "db" /\ message' = message
            /\ UNCHANGED <<bucket, uploaded, errors, put_error, posted, puts>>
       ELSE IF ~r2_credentials \/ outdir[volume] = {}
       THEN /\ pc' = "crash"
            /\ message' = IF ~r2_credentials THEN "R2 credentials not configured"
                          ELSE "No WebP files found"
            /\ UNCHANGED <<bucket, uploaded, errors, put_error, posted, puts>>
       ELSE \E bad \in SUBSET (1..Cardinality(outdir[volume])) :
             LET r == upload_to_r2(bucket, outdir, volume, bad)
             IN /\ bucket' = r.bucket
                /\ uploaded' = r.uploaded
                /\ errors' = r.errors
                /\ put_error' = <<FirstError(bad)>>
                /\ posted' = r.posted
                /\ puts' = puts \cup r.puts
                /\ pc' = "db" /\ message' = message
    /\ UNCHANGED <<script, envVars, list_error, read_error, encode_error, encoded, fileVars, dbVars, confirm, idx, uvpVars,
                   toDbVars, outdir, volume_page_counts, poolVars, skip_bucket, vol_page_count,
                   converted>>

\* STEP 4, the choice: without a client the database is skipped; "append"
\* takes the series picked in select_existing_manga, and falls back to "new"
\* when there is none or the menu is cancelled.
VolChooseManga ==
    /\ Vol /\ pc = "db"
    /\ IF ~convex_client
       THEN /\ pc' = "done" /\ message' = "Convex client not available"
            /\ manga_id' = manga_id
       ELSE \/ \E choice \in {"new", "append"}, picked \in {None} \cup 1..series :
                 /\ manga_id' = IF choice = "append" THEN picked ELSE None
                 /\ pc' = IF manga_id' = None THEN "create" ELSE "add"
                 /\ message' = message
            \/ /\ pc' = "crash" /\ message' = "EOFError"
               /\ manga_id' = manga_id
    /\ UNCHANGED <<script, envVars, errVars, volVars, fileVars, bucket, dbVars, confirm, idx,
                   uvpVars, volumes, added_volumes, skipped_volumes, fullVars>>

\* create_manga re-raises, and main() does not catch it.
VolCreateManga ==
    /\ Vol /\ pc = "create"
    /\ \E outcome \in CreateMangaOutcomes :
         /\ calls' = Append(calls, Call("createManga", 0, 24, outcome))
         /\ IF outcome = "ok"
            THEN /\ series' = series + 1
                 /\ db' = Append(db, <<>>)
                 /\ manga_id' = series + 1
                 /\ pc' = "add" /\ message' = message
            ELSE /\ UNCHANGED <<series, db, manga_id>>
                 /\ pc' = "crash" /\ message' = "Error creating manga"
    /\ UNCHANGED <<script, envVars, errVars, volVars, fileVars, bucket, confirm, idx, uvpVars,
                   volumes, added_volumes, skipped_volumes, fullVars>>

\* add_volume(manga_id, volume, page_count): re-raises, not caught; then the
\* summary panel.
VolAddVolume ==
    /\ Vol /\ pc = "add"
    /\ \E outcome \in AddVolumeOutcomes(db[manga_id], volume) :
         /\ calls' = Append(calls, Call("addVolume", volume, vol_page_count, outcome))
         /\ IF outcome = "ok"
            THEN /\ db' = AddTo(manga_id, volume, vol_page_count)
                 /\ pc' = "done" /\ message' = message
            ELSE /\ db' = db
                 /\ pc' = "crash" /\ message' = "Error adding volume"
    /\ UNCHANGED <<script, envVars, errVars, volVars, fileVars, bucket, series, confirm, idx,
                   uvpVars, toDbVars, fullVars>>


\* ------------------------------- upload_full_manga.convert_single_volume,
\* file by file.  A path is the sequence of its components below the volume's
\* source folder; a component is a sequence of characters.
Conv == script = "convert_single_volume"

\* str.__lt__ on two components, by code point (ord).
RECURSIVE StrLess(_, _)
StrLess(a, b) ==
    LET ord(c) ==
            CASE c = "." -> 46
              [] c = "0" -> 48 [] c = "1" -> 49 [] c = "2" -> 50 [] c = "3" -> 51
              [] c = "G" -> 71 [] c = "J" -> 74 [] c = "P" -> 80
              [] c = "b" -> 98 [] c = "c" -> 99 [] c = "e" -> 101 [] c = "g" -> 103 [] c = "h" -> 104
              [] c = "j" -> 106 [] c = "n" -> 110 [] c = "p" -> 112 [] c = "t" -> 116
              [] c = "w" -> 119 [] c = "x" -> 120
    IN IF b = <<>> THEN FALSE
       ELSE IF a = <<>> THEN TRUE
       ELSE IF Head(a) # Head(b) THEN ord(Head(a)) < ord(Head(b))
       ELSE StrLess(Tail(a), Tail(b))

\* Path.__lt__: the tuples of components are compared.
RECURSIVE PathLess(_, _)
PathLess(p, q) ==
    IF q = <<>> THEN FALSE
    ELSE IF p = <<>> THEN TRUE
    ELSE IF Head(p) # Head(q) THEN StrLess(Head(p), Head(q))
    ELSE PathLess(Tail(p), Tail(q))

\* sorted(image_files): stable insertion by Path.__lt__
RECURSIVE InsertPath(_, _)
InsertPath(s, e) ==
    IF s = <<>> THEN <<e>>
    ELSE IF PathLess(e, Head(s)) THEN <<e>> \o s
    ELSE <<Head(s)>> \o InsertPath(Tail(s), e)

RECURSIVE SortPaths(_)
SortPaths(s) ==
    IF s = <<>> THEN <<>>
    ELSE InsertPath(SortPaths(SubSeq(s, 1, Len(s) - 1)), s[Len(s)])

\* ["*.png", "*.jpg", "*.jpeg", "*.PNG", "*.JPG", "*.JPEG"], without the star
Patterns ==
    << <<".", "p", "n", "g">>, <<".", "j", "p", "g">>, <<".", "j", "p", "e", "g">>,
       <<".", "P", "N", "G">>, <<".", "J", "P", "G">>, <<".", "J", "P", "E", "G">> >>

\* fnmatch of a file name against "*" + suffix, case-sensitive
EndsWith(name, suffix) ==
    /\ Len(name) >= Len(suffix)
    /\ SubSeq(name, Len(name) - Len(suffix) + 1, Len(name)) = suffix

\* "for ext in [...]: image_files.extend(directory.rglob(ext))": rglob yields
\* the matching files at any depth, in discovery order
RECURSIVE ExtendAll(_, _)
ExtendAll(dir, i) ==
    IF i > Len(Patterns) THEN <<>> ELSE SelectSeq(dir, LAMBDA p : EndsWith(p[Len(p)], Patterns[i]))
             \o ExtendAll(dir, i + 1)

\* Fault: the files are converted in the order the patterns found them.
find_image_files_unsorted(dir) == ExtendAll(dir, 1)

find_image_files(dir) == SortPaths(ExtendAll(dir, 1))

\* The files a source folder may hold: names whose numbers disagree with
\* their order as strings, an upper-case and a mixed-case extension, a file
\* in a sub-directory, and a file that is no image.
\* The directory listings: up to MaxListing distinct files, in any order.
Listings ==
    LET SrcFiles ==
        { << <<"1", "0", ".", "p", "n", "g">> >>,
          << <<"2", ".", "p", "n", "g">> >>,
          << <<"1", ".", "J", "P", "G">> >>,
          << <<"3", ".", "P", "n", "g">> >>,
          << <<"c", "h">>, <<"1", ".", "j", "p", "e", "g">> >>,
          << <<"n", ".", "t", "x", "t">> >> }
    IN {l \in UNION {[1..n -> SrcFiles] : n \in 0..MaxListing} :
           \A i, j \in DOMAIN l : i # j => l[i] # l[j]}

InitConvert ==
    /\ script = "convert_single_volume"
    /\ convex_client = FALSE /\ r2_credentials = FALSE
    /\ yes = FALSE /\ dry_run = FALSE
    /\ skip_convert = FALSE /\ skip_r2 = FALSE /\ skip_db = FALSE
    /\ max_workers = 1
    /\ source_exists = TRUE
    /\ source = [i \in 1..Len(SrcFolders) |-> None]
    /\ outdir = [v \in 1..NumSrcVols |-> {}]
    /\ volume = 1
    /\ listing \in Listings /\ NoUploadJob
    /\ bucket = [i \in 1..Len(Folders) |-> {}]
    /\ series = 0 /\ db = <<>> /\ db0 = db /\ calls = <<>>
    /\ InitLocals

\* png_files = find_image_files(source_path); ValueError when there is none.
ConvDiscover ==
    /\ Conv /\ pc = "start"
    /\ png_files' = find_image_files(listing)
    /\ IF png_files' = <<>>
       THEN pc' = "failed" /\ message' = "No image files found"
       ELSE pc' = "encode" /\ message' = message
    /\ UNCHANGED <<script, envVars, errVars, volVars, listing, written, webp_folder, manga_slug, put_files, objects, objects_once,
                   bucket, dbVars, confirm, idx,
                   uvpVars, toDbVars, fullVars>>

\* One iteration of "for i, png_path in enumerate(png_files, 1)": the image
\* is saved as {pad_number(i)}.webp, or the exception is re-raised.
ConvEncode ==
    /\ Conv /\ pc = "encode" /\ Len(written) < Len(png_files)
    /\ LET i == Len(written) + 1
       IN \/ /\ written' = Append(written, [name |-> pad_number(i), src |-> png_files[i]])
             /\ UNCHANGED <<pc, message>>
          \/ /\ pc' = "failed" /\ message' = "Failed to convert"
             /\ written' = written
    /\ UNCHANGED <<script, envVars, errVars, volVars, listing, png_files, webp_folder, manga_slug, put_files, objects,
                   objects_once, bucket, dbVars, confirm, idx,
                   uvpVars, toDbVars, fullVars>>

\* return converted, errors
ConvReturn ==
    /\ Conv /\ pc = "encode" /\ Len(written) = Len(png_files)
    /\ converted' = Len(written) /\ errors' = 0
    /\ pc' = "done"
    /\ UNCHANGED <<script, envVars, errVars, fileVars, bucket, dbVars, message, confirm, idx,
                   uvpVars, toDbVars, fullVars, skip_bucket, vol_page_count, uploaded>>


\* ------------------------------------ update_volume_pages.list_volume_folders,
\* prefix by prefix.  A common prefix is the sequence of its components,
\* manga / slug / folder; a component is a sequence of characters.
Listing == script = "list_volume_folders"

\* The CommonPrefixes of one listing: up to MaxListing distinct folders of
\* one series, in any order.  The slugs: a plain one, and one that ends in a
\* volume number.  The folders: two volume folders whose numbers sort against
\* their names, a folder whose digits are followed by a letter, and a folder
\* that is no volume.
PrefixLists ==
    LET Slugs == { <<"s">>,
                   <<"a", "-", "v", "o", "l", "u", "m", "e", "-", "2">> }
        FolderNames ==
            { <<"v", "o", "l", "u", "m", "e", "-", "0", "1", "0">>,
              <<"v", "o", "l", "u", "m", "e", "-", "9">>,
              <<"v", "o", "l", "u", "m", "e", "-", "1", "a">>,
              <<"e", "x", "t", "r", "a", "s">> }
    IN {[i \in DOMAIN l |-> <<<<"m", "a", "n", "g", "a">>, l[i][1], l[i][2]>>] :
           l \in {m \in UNION {[1..n -> Slugs \X FolderNames] : n \in 0..MaxListing} :
                     /\ \A i, j \in DOMAIN m : i # j => m[i] # m[j]
                     /\ \A i, j \in DOMAIN m : m[i][1] = m[j][1]}}

\* prefix.get("Prefix", ""): the components joined, each followed by "/".
RECURSIVE PrefixString(_)
PrefixString(p) == IF p = <<>> THEN <<>> ELSE Head(p) \o <<"/">> \o PrefixString(Tail(p))

IsDigit(c) == c \in {"0", "1", "2", "3", "4", "5", "6", "7", "8", "9"}
DigitValue(c) ==
    CASE c = "0" -> 0 [] c = "1" -> 1 [] c = "2" -> 2 [] c = "3" -> 3 [] c = "4" -> 4
      [] c = "5" -> 5 [] c = "6" -> 6 [] c = "7" -> 7 [] c = "8" -> 8 [] c = "9" -> 9

\* \d+ at position i of s: the longest run of digits starting there.
RECURSIVE DigitRun(_, _)
DigitRun(s, i) ==
    IF i <= Len(s) /\ IsDigit(s[i]) THEN <<DigitValue(s[i])>> \o DigitRun(s, i + 1) ELSE <<>>

\* volume-(\d+)/ matched at position i of s: the digits, or <<>>.
MatchAt(s, i) ==
    LET lit == <<"v", "o", "l", "u", "m", "e", "-">>
        ds == DigitRun(s, i + Len(lit))
        end == i + Len(lit) + Len(ds)
    IN IF /\ i + Len(lit) - 1 <= Len(s)
          /\ SubSeq(s, i, i + Len(lit) - 1) = lit
          /\ ds # <<>>
          /\ end <= Len(s) /\ s[end] = "/"
       THEN ds ELSE <<>>

\* re.search(r"volume-(\d+)/", folder): group 1 of the leftmost match, or <<>>.
RECURSIVE SearchFrom(_, _)
SearchFrom(s, i) ==
    IF i > Len(s) THEN <<>>
    ELSE IF MatchAt(s, i) # <<>> THEN MatchAt(s, i)
    ELSE SearchFrom(s, i + 1)

re_search(folder) == SearchFrom(folder, 1)

\* len(vol_response.get("Contents", [])): the folder's object count (here a
\* folder holds as many objects as its name has characters).
ObjectCount(p) == Len(p[3])

InitListing ==
    /\ script = "list_volume_folders"
    /\ convex_client = FALSE /\ r2_credentials = TRUE
    /\ yes = FALSE /\ dry_run = FALSE
    /\ skip_convert = FALSE /\ skip_r2 = FALSE /\ skip_db = FALSE
    /\ max_workers = 1
    /\ source_exists = FALSE
    /\ source = [i \in 1..Len(SrcFolders) |-> None]
    /\ outdir = [v \in 1..NumSrcVols |-> {}]
    /\ volume = 1
    /\ listing \in PrefixLists /\ NoUploadJob
    /\ bucket = [i \in 1..Len(Folders) |-> {}]
    /\ series = 0 /\ db = <<>> /\ db0 = db /\ calls = <<>>
    /\ InitLocals

\* response = s3_client.list_objects_v2(..., Delimiter="/"); volumes = []
ListStart ==
    /\ Listing /\ pc = "start"
    /\ volumes' = <<>>
    /\ idx' = 1
    /\ pc' = "scan"
    /\ UNCHANGED <<script, envVars, errVars, volVars, fileVars, bucket, dbVars, message, confirm,
                   uvpVars, manga_id, added_volumes, skipped_volumes, fullVars>>

\* One iteration of "for prefix in response.get('CommonPrefixes', [])".
ListScan ==
    /\ Listing /\ pc = "scan" /\ idx <= Len(listing)
    /\ LET folder == PrefixString(listing[idx])
           match == re_search(folder)
       IN volumes' = IF match # <<>>
                     THEN Append(volumes, <<ParseInt(match), ObjectCount(listing[idx])>>)
                     ELSE volumes
    /\ idx' = idx + 1
    /\ UNCHANGED <<script, pc, envVars, errVars, volVars, fileVars, bucket, dbVars, message,
                   confirm, uvpVars, manga_id, added_volumes, skipped_volumes, fullVars>>

\* volumes.sort(key=lambda x: x[0]); return volumes
ListReturn ==
    /\ Listing /\ pc = "scan" /\ idx > Len(listing)
    /\ volumes' = SortByKey(volumes)
    /\ pc' = "done"
    /\ UNCHANGED <<script, envVars, errVars, volVars, fileVars, bucket, dbVars, message, confirm,
                   idx, uvpVars, manga_id, added_volumes, skipped_volumes, fullVars>>


\* ------------------------------ upload_full_manga.upload_single_volume_to_r2,
\* file by file.  A file of the output folder is its name (a sequence of
\* characters) and its bytes; storage is a set of objects <<key, body>>.
Put == script = "upload_single_volume_to_r2"

\* The files an output folder may hold: pages whose names are not their
\* positions, and a file that is no WebP image.
\* The output folders: up to MaxListing such files with distinct names, each
\* with one of two bodies, in any order.
OutFolders ==
    LET WebpNames ==
            { <<"0", "0", "2", ".", "w", "e", "b", "p">>,
              <<"0", "1", "0", ".", "w", "e", "b", "p">>,
              <<"n", ".", "t", "x", "t">> }
        OutFiles == [name : WebpNames, bytes : {"a", "b"}]
    IN {l \in UNION {[1..n -> OutFiles] : n \in 0..MaxListing} :
           \A i, j \in DOMAIN l : i # j => l[i].name # l[j].name}

\* sorted(...) of the files of one folder: by name, code point by code point
RECURSIVE InsertFile(_, _)
InsertFile(s, e) ==
    IF s = <<>> THEN <<e>>
    ELSE IF StrLess(e.name, Head(s).name) THEN <<e>> \o s
    ELSE <<Head(s)>> \o InsertFile(Tail(s), e)

RECURSIVE SortFiles(_)
SortFiles(s) ==
    IF s = <<>> THEN <<>>
    ELSE InsertFile(SortFiles(SubSeq(s, 1, Len(s) - 1)), s[Len(s)])

\* Fault: the key numbers the file by its position in webp_files.
object_key_by_position(slug, volume_num, name) ==
    LET page == pad_number(idx)
        chars == [i \in DOMAIN page |-> CHOOSE c \in {"0", "1", "2", "3"} : DigitValue(c) = page[i]]
    IN <<"manga", slug, "volume-", pad_number(volume_num), chars \o <<".", "w", "e", "b", "p">> >>

\* key = f"manga/{manga_slug}/volume-{pad_number(volume_num)}/{webp_file.name}"
object_key(slug, volume_num, name) ==
    <<"manga", slug, "volume-", pad_number(volume_num), name>>

\* What storage may hold before the job runs: an older body under a key the
\* job will put, a page the folder no longer has, objects of another volume
\* and of another series.
StoredBefore(slug, volume_num) ==
    LET stored(s, v, page) ==
            <<"manga", s, "volume-", pad_number(v), page \o <<".", "w", "e", "b", "p">> >>
    IN { <<stored(slug, volume_num, <<"0", "0", "2">>), "b">>,
         <<stored(slug, volume_num, <<"0", "0", "9">>), "a">>,
         <<stored(slug, volume_num + 1, <<"0", "1", "0">>), "a">>,
         <<stored("other", volume_num, <<"0", "1", "0">>), "b">> }

InitPut ==
    /\ script = "upload_single_volume_to_r2"
    /\ convex_client = FALSE /\ r2_credentials \in BOOLEAN
    /\ yes = FALSE /\ dry_run = FALSE
    /\ skip_convert = FALSE /\ skip_r2 = FALSE /\ skip_db = FALSE
    /\ max_workers = 1
    /\ source_exists = FALSE
    /\ source = [i \in 1..Len(SrcFolders) |-> None]
    /\ outdir = [v \in 1..NumSrcVols |-> {}]
    /\ volume \in {1, 12, 1000}
    /\ listing = <<>>
    /\ webp_folder \in OutFolders
    /\ manga_slug \in {"s", "t"}
    /\ objects \in SUBSET StoredBefore(manga_slug, volume)
    /\ bucket = [i \in 1..Len(Folders) |-> {}]
    /\ series = 0 /\ db = <<>> /\ db0 = db /\ calls = <<>>
    /\ InitLocals

\* get_r2_client() and webp_files = sorted(webp_folder.glob("*.webp")), the
\* glob being case-sensitive: a ValueError without credentials or without files.
PutStart ==
    /\ Put /\ pc = "start"
    /\ IF ~r2_credentials
       THEN /\ pc' = "failed" /\ message' = "R2 credentials not configured"
            /\ UNCHANGED <<put_files, idx, uploaded, errors>>
       ELSE /\ put_files' = SortFiles(SelectSeq(webp_folder,
                                LAMBDA f : EndsWith(f.name, <<".", "w", "e", "b", "p">>)))
            /\ IF put_files' = <<>>
               THEN /\ pc' = "failed" /\ message' = "No WebP files found"
                    /\ UNCHANGED <<idx, uploaded, errors>>
               ELSE /\ pc' = "put" /\ message' = message
                    /\ idx' = 1 /\ uploaded' = 0 /\ errors' = 0
    /\ UNCHANGED <<script, envVars, errVars, skip_bucket, vol_page_count, converted, listing, png_files,
                   written, webp_folder, manga_slug, objects, objects_once, bucket, dbVars, confirm,
                   uvpVars, toDbVars, fullVars>>

\* One iteration of "for webp_file in webp_files": s3_client.upload_file
\* creates or replaces the object at the file's key, or the exception is
\* re-raised.
PutFile ==
    /\ Put /\ pc = "put" /\ idx <= Len(put_files)
    /\ LET webp_file == put_files[idx]
           key == object_key(manga_slug, volume, webp_file.name)
       IN \/ /\ objects' = {o \in objects : o[1] # key} \cup {<<key, webp_file.bytes>>}
             /\ uploaded' = uploaded + 1
             /\ idx' = idx + 1
             /\ UNCHANGED <<pc, message, errors>>
          \/ /\ errors' = errors + 1
             /\ pc' = "failed" /\ message' = "Error uploading"
             /\ UNCHANGED <<objects, uploaded, idx>>
    /\ UNCHANGED <<script, envVars, errVars, skip_bucket, vol_page_count, converted, listing, png_files,
                   written, webp_folder, manga_slug, put_files, objects_once, bucket, dbVars, confirm,
                   uvpVars, toDbVars, fullVars>>

\* return uploaded, errors.  The first time the job returns, it is run again
\* for the same folder, slug and volume.
PutReturn ==
    /\ Put /\ pc = "put" /\ idx > Len(put_files)
    /\ IF objects_once = <<>>
       THEN objects_once' = <<objects>> /\ pc' = "start"
       ELSE objects_once' = objects_once /\ pc' = "done"
    /\ UNCHANGED <<script, envVars, errVars, volVars, listing, png_files, written, webp_folder,
                   manga_slug, put_files, objects, bucket, dbVars, message, confirm, idx,
                   uvpVars, toDbVars, fullVars>>

\* The steps of update_volume_pages and upload_manga_to_db.
Next ==
    \/ UvpNext
    \/ ToDbStart \/ ToDbScanBucket \/ ToDbCheckExisting \/ ToDbConfirm
    \/ ToDbCreateManga \/ ToDbAddVolume \/ ToDbSummary

\* ------------------------------------------------------------------ claims
Terminal == {"exit0", "exit1", "done", "crash"}
Last(s) == s[Len(s)]

\* The diff loop of update_volume_pages has classified every volume.
DiffDone ==
    /\ Uvp
    /\ \/ pc = "diff" /\ todo = <<>>
       \/ pc \in {"exit0", "confirm", "apply", "summary", "done", "crash"}

\* The volume numbers of the bucket inventory and of the database map.
BucketVolumes == {r2_volumes[i][1] : i \in DOMAIN r2_volumes}
DbVolumes == DOMAIN db_volume_pages
RowsOf(v) == {i \in DOMAIN table : table[i].vol = v}
Occ(s, v) == Cardinality({i \in DOMAIN s : s[i][1] = v})
StatusOf(v) == table[CHOOSE i \in RowsOf(v) : TRUE].status
Statuses == {"Match", "Needs Update", "Missing from DB", "Missing from R2"}
NumbersNear == 0..(NumVols + 1)

\* C1: every volume number of the bucket inventory or of the database map
\* is classified exactly once, into exactly one of MATCH, UPDATE, ADD,
\* ORPHAN, and no other number is classified, also when the inventory lists
\* a volume number more than once.
C1_ClassifiedExactlyOnce ==
    Uvp =>
      /\ \A v \in NumbersNear :
           /\ Cardinality(RowsOf(v)) <= 1
           /\ Occ(needs_update, v) + Occ(missing_volumes, v) + Occ(unexpected_volumes, v)
                + (IF RowsOf(v) # {} /\ StatusOf(v) = "Match" THEN 1 ELSE 0)
              = Cardinality(RowsOf(v))
           /\ RowsOf(v) # {} => v \in BucketVolumes \cup DbVolumes
      /\ \A i \in DOMAIN table :
           /\ table[i].status \in Statuses
           /\ table[i].vol \in NumbersNear
           /\ table[i].status = "Needs Update" <=> Occ(needs_update, table[i].vol) = 1
           /\ table[i].status = "Missing from DB" <=> Occ(missing_volumes, table[i].vol) = 1
           /\ table[i].status = "Missing from R2" <=> Occ(unexpected_volumes, table[i].vol) = 1
      /\ matches = Cardinality({i \in DOMAIN table : table[i].status = "Match"})
      /\ DiffDone => \A v \in BucketVolumes \cup DbVolumes : Cardinality(RowsOf(v)) = 1

\* C1 witness: the diff is complete for an inventory that lists one volume
\* number twice, with a database that holds a volume too.
C1_Witness ==
    /\ DiffDone
    /\ \E i, j \in DOMAIN r2_volumes :
         i < j /\ r2_volumes[i][1] = r2_volumes[j][1] /\ r2_volumes[i][2] # r2_volumes[j][2]
    /\ unexpected_volumes # <<>>
    /\ Len(table) >= 3

\* The reference classification: the bucket's count of a volume is that of
\* the first folder listed for it.
FirstIndex(v) == Min({i \in DOMAIN r2_volumes : r2_volumes[i][1] = v})
BucketCount(v) == r2_volumes[FirstIndex(v)][2]
Reference(v) ==
    IF v \in BucketVolumes /\ v \in DbVolumes
    THEN IF BucketCount(v) = db_volume_pages[v] THEN "Match" ELSE "Needs Update"
    ELSE IF v \in BucketVolumes THEN "Missing from DB"
    ELSE IF v \in DbVolumes THEN "Missing from R2"
    ELSE "none"
ActionOf(status) == IF status = "Needs Update" THEN "update" ELSE "add"

\* C2: the diff agrees with the reference classification (MATCH iff in both
\* with equal counts, UPDATE iff in both with different counts, ADD iff in
\* the bucket only, ORPHAN iff in the database only), and every ADD or
\* UPDATE entry of the change set carries the bucket's file count.
C2_DiffAgreesWithReference ==
    DiffDone =>
      /\ \A v \in NumbersNear :
           IF Reference(v) = "none" THEN RowsOf(v) = {}
           ELSE RowsOf(v) # {} /\ StatusOf(v) = Reference(v)
      /\ \A i \in DOMAIN changes_needed :
           LET e == changes_needed[i]
           IN /\ Reference(e[1]) \in {"Needs Update", "Missing from DB"}
              /\ e[3] = ActionOf(Reference(e[1]))
              /\ e[2] = BucketCount(e[1])
      /\ \A v \in NumbersNear :
           Occ(changes_needed, v)
             = IF Reference(v) \in {"Needs Update", "Missing from DB"} THEN 1 ELSE 0

\* C2 witness: a MATCH, an UPDATE whose target differs from the database
\* count, and an ADD, as in bucket=[(1,a),(2,b),(3,c)], db={1:a, 2:d}.
C2_Witness ==
    /\ DiffDone
    /\ \E a, b, c \in 1..MaxFiles : r2_volumes = <<<<1, a>>, <<2, b>>, <<3, c>>>>
    /\ DbVolumes = {1, 2}
    /\ matches = 1
    /\ changes_needed = <<<<2, r2_volumes[2][2], "update">>, <<3, r2_volumes[3][2], "add">>>>
    /\ unexpected_volumes = <<>>

ErrorsBefore(i) == Cardinality({j \in 1..(i - 1) : calls[j].outcome = "error"})

\* C3: once the cumulative number of entries whose mutation failed reaches
\* 3 no further entry is attempted; if the first three entries each fail,
\* exactly three are attempted and failed is 3; failed never exceeds 3.
C3_CircuitBreaker ==
    Uvp =>
      /\ failed <= FailureLimit
      /\ \A i \in DOMAIN calls : ErrorsBefore(i) < FailureLimit
      /\ ( /\ pc \in {"summary", "done"}
           /\ Len(calls) >= FailureLimit
           /\ \A i \in 1..FailureLimit : calls[i].outcome = "error" )
         => (Len(calls) = FailureLimit /\ failed = FailureLimit)

\* The mutation just issued, if this step issued one.
Issued == Len(calls') = Len(calls) + 1
Rejected(op, outcome) == Issued /\ Last(calls').op = op /\ Last(calls').outcome = outcome

\* C4: in every flow that applies an ADD, when the database rejects
\* addVolume because the volume already exists, the entry is recorded as
\* skipped, failed is not incremented, and the run is not aborted.
C4_DuplicateAddIsSkipped ==
    [][ Rejected("addVolume", "duplicate")
          => /\ failed' = failed
             /\ pc' \notin {"exit1", "crash"}
             /\ \/ skipped' = skipped + 1
                \/ Len(skipped_volumes') = Len(skipped_volumes) + 1 ]_vars

\* C5: an UPDATE entry whose mutation fails for a reason other than
\* "unsupported" is recorded as failed (not skipped, not updated).
C5_UpdateFailureIsFailed ==
    [][ (Uvp /\ Rejected("updateVolume", "error"))
          => (failed' = failed + 1 /\ skipped' = skipped /\ updated' = updated) ]_vars

\* C6: an UPDATE entry whose mutation is answered "unsupported" is recorded
\* as skipped: skipped grows by one, updated and failed stay, and the loop
\* goes on with the next entry.
C6_UnsupportedUpdateSkipped ==
    [][ (Uvp /\ Rejected("updateVolume", "unsupported"))
          => /\ skipped' = skipped + 1
             /\ updated' = updated /\ failed' = failed /\ added' = added
             /\ pc' = "apply" /\ idx' = idx + 1 ]_vars

\* C6 witness: an unsupported update was just skipped and a further entry
\* is about to be processed.
C6_Witness ==
    /\ Uvp /\ pc = "apply" /\ calls # <<>>
    /\ Last(calls).op = "updateVolume" /\ Last(calls).outcome = "unsupported"
    /\ skipped = 1 /\ failed = 0
    /\ idx <= Len(changes_needed)

\* C7: with dry_run set no database mutation is ever issued, whatever the
\* bucket, the database and the yes flag; the database stays as it was.
C7_DryRunNoMutation ==
    (Uvp /\ dry_run) => (calls = <<>> /\ db = db0 /\ series = Len(db0))

\* C7 witness: a dry run with --yes ended after reporting a change set.
C7_Witness ==
    /\ Uvp /\ dry_run /\ yes /\ pc = "exit0"
    /\ message = "Dry run complete"
    /\ Len(changes_needed) >= 2

ListingFailed == message \in {"Failed to list R2 folders", "R2 credentials not configured"}
Reported == \A v \in BucketVolumes \cup DbVolumes : RowsOf(v) # {}
OrphansReported ==
    \A v \in DbVolumes \ BucketVolumes :
        Occ(unexpected_volumes, v) = 1 /\ StatusOf(v) = "Missing from R2"

BucketVolumeNumbers ==
    {ParseInt(Folders[i].digits) :
        i \in {j \in DOMAIN Folders : bucket[j] # {} /\ IsVolumeFolder(Folders[j])}}
Untouched(v) ==
    /\ \A i \in DOMAIN calls : calls[i].vol # v
    /\ v \in DOMAIN db[1] /\ db[1][v] = db0[1][v]

\* C10: a volume present in the database and absent from the bucket (an
\* ORPHAN) is never the target of an addVolume or updateVolume call, and
\* its database record is unchanged.
C10_OrphanNeverMutated ==
    (Uvp /\ Len(db0) > 0) =>
      /\ \A v \in DOMAIN db0[1] \ BucketVolumeNumbers : Untouched(v)
      /\ \A i \in DOMAIN unexpected_volumes :
           /\ unexpected_volumes[i][1] \in DOMAIN db0[1] \ BucketVolumeNumbers
           /\ Untouched(unexpected_volumes[i][1])

\* C10 witness: a run that changed the database ended with an orphan
\* reported.
C10_Witness ==
    /\ Uvp /\ pc = "done"
    /\ unexpected_volumes # <<>>
    /\ \E i \in DOMAIN calls : calls[i].outcome = "ok"
    /\ db # db0

Affirmative == { <<"Y">>, <<"Y", "E", "S">> }
Answered == confirm # Unread
Mutated == calls # <<>> \/ puts # {}

Ascending(s) == \A i, j \in DOMAIN s : i < j => s[i][1] < s[j][1]
OpOf(action) == IF action = "add" THEN "addVolume" ELSE "updateVolume"

\* C11: the change set is in ascending volume-number order whatever order
\* the bucket's folders were listed in, and the apply loop issues its
\* mutations in exactly that order: the i-th call is for the i-th entry.
C11_AscendingOrder ==
    Uvp =>
      /\ Ascending(changes_needed)
      /\ Len(calls) <= Len(changes_needed)
      /\ \A i \in DOMAIN calls :
           /\ calls[i].vol = changes_needed[i][1]
           /\ calls[i].pageCount = changes_needed[i][2]
           /\ calls[i].op = OpOf(changes_needed[i][3])
      /\ \A i, j \in DOMAIN calls : i < j => calls[i].vol < calls[j].vol

\* C11 witness: the folders were listed out of order (volume-1 after a
\* higher volume) and the run issued at least two mutations.
C11_Witness ==
    /\ Uvp /\ pc = "done"
    /\ ~Ascending(ScanFolders(bucket, 1))
    /\ Len(calls) >= 2

\* The diff as a function of its two inputs alone.
NumbersOf(r2v) == {r2v[i][1] : i \in DOMAIN r2v}
CountIn(r2v, v) == r2v[Min({i \in DOMAIN r2v : r2v[i][1] = v})][2]
RefChanges(r2v, dbp) ==
    LET sel == SelectSeq(sorted(NumbersOf(r2v) \cup DOMAIN dbp),
                         LAMBDA v : /\ v \in NumbersOf(r2v)
                                    /\ (v \in DOMAIN dbp => dbp[v] # CountIn(r2v, v)))
    IN [i \in 1..Len(sel) |->
          <<sel[i], CountIn(r2v, sel[i]), IF sel[i] \in DOMAIN dbp THEN "update" ELSE "add">>]
RefOrphans(r2v, dbp) ==
    LET sel == sorted(DOMAIN dbp \ NumbersOf(r2v))
    IN [i \in 1..Len(sel) |-> <<sel[i], dbp[sel[i]]>>]
RefMatches(r2v, dbp) ==
    Cardinality({v \in NumbersOf(r2v) \cap DOMAIN dbp : dbp[v] = CountIn(r2v, v)})

\* C12: the diff is a function of the bucket inventory and the database
\* map alone (same inputs, same change set, same matches and orphans), and
\* the steps that compute it change neither the database nor storage.
C12_DiffIsPureFunction ==
    /\ [](DiffDone =>
            /\ changes_needed = RefChanges(r2_volumes, db_volume_pages)
            /\ unexpected_volumes = RefOrphans(r2_volumes, db_volume_pages)
            /\ matches = RefMatches(r2_volumes, db_volume_pages))
    /\ [][ (Uvp /\ pc \in {"step3", "diff"})
             => UNCHANGED <<calls, db, series, bucket>> ]_vars

\* C12 witness: the diff is complete although the read of the database
\* volumes failed, for a series that has volumes and a bucket that has two.
C12_Witness ==
    /\ DiffDone
    /\ db_volume_pages = <<>> /\ series > 0 /\ DOMAIN db[1] # {}
    /\ Len(changes_needed) >= 2

Attempted == Len(calls)
Counted == added + updated + skipped + failed

\* C13: in the apply loop every attempted entry has incremented exactly
\* one of added, updated, skipped, failed: their sum is the number of
\* entries attempted and never exceeds the size of the change set; matches
\* plus the change set plus the orphans is the number of distinct volumes.
C13_CountersPartition ==
    /\ [](Uvp =>
            /\ Counted = Attempted
            /\ Counted <= Len(changes_needed)
            /\ pc = "apply" => idx = Attempted + 1
            /\ DiffDone => matches + Len(changes_needed) + Len(unexpected_volumes)
                             = Cardinality(BucketVolumes \cup DbVolumes))
    /\ [][ (Uvp /\ Issued) =>
              \/ added' = added + 1 /\ UNCHANGED <<updated, skipped, failed>>
              \/ updated' = updated + 1 /\ UNCHANGED <<added, skipped, failed>>
              \/ skipped' = skipped + 1 /\ UNCHANGED <<added, updated, failed>>
              \/ failed' = failed + 1 /\ UNCHANGED <<added, updated, skipped>> ]_vars

\* C13 witness: a finished run in which an entry was added, one updated,
\* one skipped and one failed, with a match and an orphan besides.
C13_Witness ==
    /\ Uvp /\ pc = "done"
    /\ added >= 1 /\ updated >= 1 /\ skipped + failed >= 1
    /\ matches >= 1


\* ------------------------------------------------- conversion and upload
\* Job j's conversion stopped at its first failing image: nothing after that
\* image was encoded by the job.
StoppedAtEncodeError(j) == \A e \in encoded : e[1] = j => e[2] < encode_error[j]

\* convert_single_volume: the job whose image failed ended with the exception.
FullEncodeErrorIsError ==
    Full => \A j \in DOMAIN encode_error :
              encode_error[j] # 0 =>
                /\ job_status[j] = "failed" /\ job_result[j] = None
                /\ StoppedAtEncodeError(j)

\* convert_volume: the call in which an image failed returned no count.
VolEncodeErrorIsError ==
    Vol => \A j \in DOMAIN encode_error :
             encode_error[j] # 0 =>
               /\ converted = None /\ vol_page_count = 0
               /\ StoppedAtEncodeError(j)

\* C14: in both conversion routines (convert_single_volume of
\* upload_full_manga, convert_volume of upload_volume), when the k-th image of
\* a volume fails to encode, the result for the volume is an error: no
\* converted count reaches the caller and no image after the k-th is encoded.
C14_EncodeErrorIsError == FullEncodeErrorIsError /\ VolEncodeErrorIsError

\* Job j's upload stopped at its first failing put: no file after it was put.
StoppedAtPutError(j) == \A e \in posted : e[1] = j => e[2] < put_error[j]

\* upload_single_volume_to_r2: the job whose put failed ended with the exception.
FullPutErrorIsError ==
    Full => \A j \in DOMAIN put_error :
              put_error[j] # 0 =>
                /\ job_status[j] = "failed" /\ job_result[j] = None
                /\ StoppedAtPutError(j)

\* upload_to_r2: the call in which a put failed returned no count.
VolPutErrorIsError ==
    Vol => \A j \in DOMAIN put_error :
             put_error[j] # 0 => uploaded = None /\ StoppedAtPutError(j)

\* C15: in both upload routines (upload_single_volume_to_r2 of
\* upload_full_manga, upload_to_r2 of upload_volume), the first file whose
\* put fails ends the volume's upload: no later file of the volume is put and
\* the result is an error, not an uploaded count.
C15_PutErrorIsError == FullPutErrorIsError /\ VolPutErrorIsError

\* The source images of the folder: the files with one of the six extensions.
Images ==
    {listing[i] : i \in {x \in DOMAIN listing :
                            \E e \in DOMAIN Patterns : EndsWith(listing[x][Len(listing[x])], Patterns[e])}}

\* The position of an image among the folder's images in ascending path order.
Rank(p) == Cardinality({q \in Images : PathLess(q, p)}) + 1

DistinctNumbers == \A i, j \in DOMAIN volumes : i # j => volumes[i][1] # volumes[j][1]

\* Both pools have ended without a failure in this run.
ConvertedAndUploaded == Full /\ ~skip_convert /\ ~skip_r2 /\ pc \in {"db", "add", "done"}

\* C17: once a volume's conversion has reported N files and its upload has
\* succeeded, the storage listing reports fileCount = N for the volume,
\* whatever the output directory and the storage prefix held before.
C17_ListingEqualsConverted ==
    (ConvertedAndUploaded /\ DistinctNumbers) =>
        \A j \in DOMAIN volumes :
            r2_count(list_volume_folders(bucket), volumes[j][1])
                = volume_page_counts[volumes[j][1]]

\* What job j did, read off the histories: the images it encoded, the files
\* it put.
EncodedOf(j) == {e[2] : e \in {x \in encoded : x[1] = j}}
PostedOf(j) == {e[2] : e \in {x \in posted : x[1] = j}}

\* The outcome a conversion job has on its own: all n images of its folder
\* and the count n, or the images before its own first failure and an error.
ConvertedAlone(j) ==
    LET n == source[volumes[j][2]]
    IN IF n > 0 /\ encode_error[j] = 0
       THEN job_status[j] = "done" /\ job_result[j] = n /\ EncodedOf(j) = 1..n
       ELSE /\ job_status[j] = "failed" /\ job_result[j] = None
            /\ EncodedOf(j) = 1..(encode_error[j] - 1)

\* The outcome an upload job has on its own, likewise.
UploadedAlone(j) ==
    LET n == Cardinality(outdir[volumes[j][1]])
    IN IF r2_credentials /\ n > 0 /\ put_error[j] = 0
       THEN job_status[j] = "done" /\ job_result[j] = n /\ PostedOf(j) = 1..n
       ELSE /\ job_status[j] = "failed" /\ job_result[j] = None
            /\ PostedOf(j) = 1..(put_error[j] - 1)

ConvertFailed == Full /\ pc = "exit1" /\ message = "Volume failed"
UploadFailed == Full /\ pc = "exit1" /\ message = "Volume upload failed"

\* C18: when a volume's conversion or upload job has failed, no other job of
\* the pool is cancelled or skipped: by the time the run ends every job has
\* run, and each has the outcome it has on its own files.
C18_SiblingsUnaffected ==
    /\ (ConvertFailed \/ UploadFailed) => Finished = DOMAIN job_status
    /\ (Full /\ (pc \in {"convert", "convert_abort"} \/ ConvertFailed)) =>
          \A j \in Finished : ConvertedAlone(j)
    /\ (Full /\ (pc \in {"upload", "upload_abort"} \/ UploadFailed)) =>
          \A j \in Finished : UploadedAlone(j)

\* C18 witness: the first job failed at an image, and a job submitted after it
\* converted its whole folder.
C18_Witness ==
    /\ ConvertFailed
    /\ \E j, s \in DOMAIN job_status :
         /\ j < s
         /\ encode_error[j] # 0
         /\ job_status[s] = "done" /\ job_result[s] = MaxImages

UploadPhases == {"upload", "upload_abort"}

\* The step creates the upload pool.
UploadPoolCreated == pc \notin UploadPhases /\ pc' = "upload"

\* A job of a pool goes from pending to running to done or failed, once.
JobRunsOnce(j) ==
    \/ job_status'[j] = job_status[j]
    \/ job_status[j] = "pending" /\ job_status'[j] = "running"
    \/ job_status[j] = "running" /\ job_status'[j] \in {"done", "failed"}

\* C19: at most max_workers jobs run at any moment; the upload pool exists
\* only after every conversion job has finished; every entry of volumes is
\* one conversion job and one upload job, each run once.
C19_BoundedSeparatePools ==
    /\ [](Full =>
            /\ Cardinality(Running) <= max_workers
            /\ (pc \in PoolPhases => DOMAIN job_status = DOMAIN volumes)
            /\ (pc \in PoolPhases /\ ~skip_convert => DOMAIN encode_error = DOMAIN volumes)
            /\ (pc \in UploadPhases =>
                  /\ DOMAIN put_error = DOMAIN volumes
                  /\ ~skip_convert =>
                       \A j \in DOMAIN volumes :
                          /\ encode_error[j] = 0
                          /\ EncodedOf(j) = 1..source[volumes[j][2]]
                          /\ volumes[j][1] \in DOMAIN volume_page_counts))
    /\ [][Full =>
            /\ UploadPoolCreated => Finished = DOMAIN job_status
            /\ (pc \in PoolPhases /\ ~UploadPoolCreated) =>
                  \A j \in DOMAIN job_status : JobRunsOnce(j)]_vars

\* C19 witness: after the conversions, two upload jobs run side by side in a
\* pool of two workers.
C19_Witness ==
    /\ Full /\ pc = "upload" /\ ~skip_convert
    /\ max_workers = MaxWorkers /\ Cardinality(Running) = MaxWorkers

\* The step issues a database mutation.
DbWrite == calls' # calls

\* C20: upload_full_manga issues no createManga and no addVolume while a
\* conversion or upload job is pending or running; the first write comes
\* after every job of both pools has finished, and the writes are issued one
\* at a time.
C20_DbAfterPools ==
    /\ [](Full =>
            /\ pc \in PoolPhases => calls = <<>>
            /\ calls # <<>> =>
                 /\ Finished = DOMAIN job_status
                 /\ ~skip_convert => \A j \in DOMAIN volumes :
                                        EncodedOf(j) = 1..source[volumes[j][2]]
                 /\ ~skip_r2 => \A j \in DOMAIN volumes :
                                        /\ job_status[j] = "done"
                                        /\ PostedOf(j) = 1..Cardinality(outdir[volumes[j][1]]))
    /\ [][(Full /\ DbWrite) =>
            /\ Len(calls') = Len(calls) + 1
            /\ SubSeq(calls', 1, Len(calls)) = calls
            /\ Finished = DOMAIN job_status
            /\ UNCHANGED <<job_status, encoded, posted, outdir, bucket>>]_vars

\* C20 witness: two volumes were converted and uploaded, then the series and
\* both volumes were written.
C20_Witness ==
    /\ Full /\ pc = "done" /\ ~skip_convert /\ ~skip_r2
    /\ Len(volumes) >= 2
    /\ Len(calls) = Len(volumes) + 1

\* ------------------------------------------------------ jobs and inventory
\* The output files job j wrote, output/volume-{NNN}/{iii}.webp as <<NNN, iii>>,
\* and the storage keys it put.
OutputFilesOf(j) == {<<volumes[j][1], i>> : i \in EncodedOf(j)}
StorageKeysOf(j) ==
    {<<volumes[j][1], webp_files(outdir, volumes[j][1])[i]>> : i \in PostedOf(j)}

\* C21: no two jobs of a pool write the same output directory, output file or
\* storage key, also when two source folder names parse to the same number.
C21_JobsWriteDisjoint ==
    Full => \A i, j \in DOMAIN volumes :
              i # j =>
                /\ i \in Running /\ j \in Running => volumes[i][1] # volumes[j][1]
                /\ OutputFilesOf(i) \cap OutputFilesOf(j) = {}
                /\ StorageKeysOf(i) \cap StorageKeysOf(j) = {}

\* The apply loop ran to its end and every entry was added or updated.
AppliedCleanly == Uvp /\ pc = "done" /\ failed = 0 /\ skipped = 0

\* C22: after an apply run that ends with failed = 0 and skipped = 0, every
\* volume number of the bucket inventory has a database page count equal to
\* its bucket file count, and a reconcile run over the same storage and the
\* database as it now is has nothing to change.
C22_ApplyRestoresEquality ==
    AppliedCleanly =>
        LET inventory == list_volume_folders(bucket)
        IN /\ \A i \in DOMAIN inventory :
                /\ inventory[i][1] \in DOMAIN db[1]
                /\ db[1][inventory[i][1]] = r2_count(inventory, inventory[i][1])
           /\ RefChanges(inventory, db[1]) = <<>>

\* C22 witness: a clean run that added one volume and updated another.
C22_Witness == AppliedCleanly /\ added >= 1 /\ updated >= 1 /\ db # db0

\* The volume folders of the bucket that hold an object.
VolumeFolders == {i \in DOMAIN Folders : bucket[i] # {} /\ IsVolumeFolder(Folders[i])}

\* A returned list holds one entry per volume folder, with its object count.
CompleteInventory(l) ==
    /\ Len(l) = Cardinality(VolumeFolders)
    /\ \A i \in VolumeFolders :
         \E k \in DOMAIN l : l[k] = <<ParseInt(Folders[i].digits), Cardinality(bucket[i])>>

\* C23: list_volume_folders returns the complete inventory or fails: when
\* its top-level listing or one of its per-volume listings fails, the caller
\* gets an error and no entry, and ends without a database mutation.
C23_ListingAllOrNothing ==
    (Uvp \/ ToDb) =>
      /\ list_error # 0 =>
           /\ pc = "exit1" /\ message = "Failed to list R2 folders"
           /\ r2_volumes = <<>> /\ volumes = <<>>
           /\ calls = <<>> /\ db = db0
      /\ (Uvp /\ r2_volumes # <<>>) => CompleteInventory(r2_volumes)
      /\ (ToDb /\ volumes # <<>>) => CompleteInventory(volumes)

\* C23 witness: the listing of the second volume folder failed, after one
\* entry had been gathered.
C23_Witness == Uvp /\ list_error >= 3 /\ pc = "exit1"

\* C24: the list returned by list_volume_folders holds no volume number
\* twice, whatever the first-level folder names under the series prefix are.
C24_InventoryDeduplicated ==
    Uvp => \A i, j \in DOMAIN r2_volumes : i # j => r2_volumes[i][1] # r2_volumes[j][1]

\* A folder name of the form volume-{digits}.
NameIsVolume(name) ==
    LET lit == <<"v", "o", "l", "u", "m", "e", "-">>
    IN /\ Len(name) > Len(lit)
       /\ SubSeq(name, 1, Len(lit)) = lit
       /\ \A i \in (Len(lit) + 1)..Len(name) : IsDigit(name[i])

\* The number a volume-{digits} folder name carries.
NumberOfName(name) == ParseInt([i \in 1..(Len(name) - 7) |-> DigitValue(name[i + 7])])

\* The returned list ascends by volume number.
ListingAscends ==
    (Listing /\ pc = "done") =>
        \A i, j \in DOMAIN volumes : i < j => volumes[i][1] <= volumes[j][1]

\* The returned list holds the volume-{digits} folders and nothing else.
ListingOnlyVolumeFolders ==
    (Listing /\ pc = "done") =>
        LET vf == {i \in DOMAIN listing : NameIsVolume(listing[i][3])}
        IN /\ Len(volumes) = Cardinality(vf)
           /\ \A i \in vf :
                \E k \in DOMAIN volumes :
                    volumes[k] = <<NumberOfName(listing[i][3]), ObjectCount(listing[i])>>

\* C25: the list list_volume_folders returns ascends by volume number
\* whatever order storage returns the folders in, and holds only folders
\* whose name matches volume-{digits}.
C25_AscendingVolumeFoldersOnly == ListingAscends /\ ListingOnlyVolumeFolders

\* The same, for a series whose slug holds no volume-{digits}.
PlainSlugOnlyVolumeFolders ==
    (listing # <<>> /\ listing[1][2] = <<"s">>) => ListingOnlyVolumeFolders

\* C26: a database reader whose query failed does not hand its caller the
\* value it hands over when the series is absent or has no volumes.
C26_FailedReadIsNotAbsence ==
    /\ (Uvp /\ "get_manga_by_slug" \in read_error) => manga # "None"
    /\ (Uvp /\ "get_volumes_for_manga" \in read_error) => db_volume_pages # <<>>
    /\ (ToDb /\ "get_existing_manga_by_slug" \in read_error) => manga_id # None

\* A step that issues manga:createManga.
IssuesCreateManga ==
    /\ Len(calls') = Len(calls) + 1
    /\ calls'[Len(calls')].op = "createManga"

\* C27: createManga is issued only while the database holds no series with
\* the slug.
C27_CreateOnlyWhenAbsent == [][IssuesCreateManga => series = 0]_vars

\* C27, consequence: the database never holds two series with the slug.
AtMostOneSeries == series <= 1

\* A connection setting the invocation needs is missing.
SettingMissing ==
    \/ Full /\ ~skip_r2 /\ ~r2_credentials
    \/ Full /\ ~skip_db /\ ~convex_client
    \/ Uvp /\ (~r2_credentials \/ ~convex_client)

\* No file converted, no object uploaded, no storage listing and no database
\* call made so far.
NoWorkDone ==
    /\ encoded = {} /\ posted = {}
    /\ list_error = 0 /\ read_error = {}
    /\ calls = <<>>

\* C28: an invocation of upload_full_manga or update_volume_pages that lacks
\* a connection setting does no work at all.
C28_MissingSettingBeforeWork == SettingMissing => NoWorkDone

\* A step of upload_full_manga that issues manga:addVolume.
FullIssuesAddVolume ==
    /\ Full
    /\ Len(calls') = Len(calls) + 1
    /\ calls'[Len(calls')].op = "addVolume"

\* The count that belongs to entry j of the discovered volumes: what its own
\* conversion job converted, or with --skip-convert the files in its output
\* directory.
OwnPageCount(j) ==
    IF skip_convert THEN Cardinality(outdir[volumes[j][1]])
    ELSE Cardinality(EncodedOf(j))

\* C29: the pageCount of every addVolume issued by upload_full_manga is the
\* count of that volume's own conversion job (or of its output directory).
C29_PageCountFromOwnJob ==
    [][FullIssuesAddVolume => calls'[Len(calls')].pageCount = OwnPageCount(idx)]_vars

\* C29, restricted to sources whose folders carry distinct volume numbers.
DistinctPageCountFromOwnJob ==
    [][(FullIssuesAddVolume /\ DistinctNumbers)
          => calls'[Len(calls')].pageCount = OwnPageCount(idx)]_vars

\* {prefix}/{slug}/volume-{NNN}/{filename} for the job's slug and volume.
KeyOfFile(name) == <<"manga", manga_slug, "volume-", ZFill(Str(volume), 3), name>>

\* The objects the job is to publish: one per *.webp file of the folder, under
\* the file's key and with the file's bytes.
PublishedObjects ==
    {<<KeyOfFile(webp_folder[i].name), webp_folder[i].bytes>> :
        i \in {k \in DOMAIN webp_folder :
                  EndsWith(webp_folder[k].name, <<".", "w", "e", "b", "p">>)}}

\* C30: once the upload job has returned, storage holds every file of the
\* folder under the key made of slug, volume number and file name, nothing
\* else has been added, and running the job again changes neither the set of
\* keys nor the body under any key.
C30_UploadIdempotent ==
    (Put /\ objects_once # <<>>) =>
        /\ objects = objects_once[1]
        /\ PublishedObjects \subseteq objects_once[1]
        /\ (objects_once[1] \ PublishedObjects) \subseteq StoredBefore(manga_slug, volume)
        /\ \A o, q \in objects_once[1] : o[1] = q[1] => o = q

\* C30 witness: the second run has returned after putting two files, one of
\* them over an older body, next to an object the folder no longer has.
C30_Witness ==
    /\ Put /\ pc = "done" /\ objects_once # <<>>
    /\ Len(put_files) = 2
    /\ <<KeyOfFile(<<"0", "0", "2", ".", "w", "e", "b", "p">>), "a">> \in objects
    /\ <<KeyOfFile(<<"0", "0", "9", ".", "w", "e", "b", "p">>), "a">> \in objects
    /\ Cardinality(objects) = 3

\* The keys under which the upload job has put files so far.
KeysPut ==
    {object_key(manga_slug, volume, put_files[i].name) :
        i \in 1..Min({idx - 1, Len(put_files)})}

\* C31: the volume number in every storage key the upload job puts a file
\* under is exactly three digits long, for every volume number.
C31_ThreeDigitSegments ==
    (Put /\ pc \in {"put", "done"}) => \A key \in KeysPut : Len(key[4]) = 3

\* C31, restricted to volume numbers below 1000.
ThreeDigitsBelowThousand ==
    (Put /\ pc \in {"put", "done"} /\ volume < 1000) => \A key \in KeysPut : Len(key[4]) = 3

\* A step of upload_volume that writes the volume record: the addVolume call
\* is accepted.
VolWritesVolume ==
    /\ Vol
    /\ Len(calls') = Len(calls) + 1
    /\ calls'[Len(calls')].op = "addVolume"
    /\ calls'[Len(calls')].outcome = "ok"

\* C32: when upload_volume has not skipped the bucket, it writes the volume
\* record only after a conversion and an upload without a failed file, and
\* with the number of objects under the volume's storage path as page count.
C32_VolumeWrittenOnlyWhenComplete ==
    [][(VolWritesVolume /\ ~skip_bucket) =>
          /\ \A j \in DOMAIN encode_error : encode_error[j] = 0
          /\ \A j \in DOMAIN put_error : put_error[j] = 0
          /\ calls'[Len(calls')].pageCount = Cardinality(bucket[FolderOf(volume)])]_vars

\* C32, first half alone: no failed file before the record is written.
VolWrittenAfterNoFailure ==
    [][(VolWritesVolume /\ ~skip_bucket) =>
          /\ \A j \in DOMAIN encode_error : encode_error[j] = 0
          /\ \A j \in DOMAIN put_error : put_error[j] = 0]_vars

\* C32, second half for runs without a failed file.
VolCountIsObjectCount ==
    [][(VolWritesVolume /\ ~skip_bucket
          /\ (\A j \in DOMAIN encode_error : encode_error[j] = 0)
          /\ (\A j \in DOMAIN put_error : put_error[j] = 0)) =>
          calls'[Len(calls')].pageCount = Cardinality(bucket[FolderOf(volume)])]_vars

\* The volume numbers the database held when the run started.
StoredAtStart == IF db0 = <<>> THEN {} ELSE DOMAIN db0[1]

\* Every ADD entry of the change set is for a volume the database lacked.
AddOnlyForAbsent ==
    \A i \in DOMAIN changes_needed :
        changes_needed[i][3] = "add" => changes_needed[i][1] \notin StoredAtStart

\* C33: update_volume_pages produces an ADD entry only for a volume number
\* that is absent from the database, also when the read of the database
\* volumes fails.
C33_AddOnlyWhenAbsent == Uvp => AddOnlyForAbsent

\* C33 for the runs whose read of the database volumes did not fail.
AddOnlyWhenAbsentAfterRead ==
    (Uvp /\ "get_volumes_for_manga" \notin read_error) => AddOnlyForAbsent

\* A conversion job of this run of upload_full_manga has failed.
ConversionFailed ==
    \/ \E j \in DOMAIN encode_error : encode_error[j] # 0
    \/ pc \in {"convert", "convert_abort"} /\ \E j \in DOMAIN job_status : job_status[j] = "failed"
    \/ message = "Volume failed"

\* C34: once a conversion job of upload_full_manga has failed, the run can
\* only end with exit code 1, and it puts no object and issues no database
\* mutation for any volume.
C34_ConversionFailureStopsAll ==
    (Full /\ ConversionFailed) =>
        /\ pc \in {"convert", "convert_abort", "exit1"}
        /\ pc # "exit1" => ENABLED FullNext
        /\ posted = {} /\ puts = {}
        /\ calls = <<>>

\* C34 witness: the run ended with code 1 after one volume failed to convert
\* and another was converted.
C34_Witness ==
    /\ Full /\ pc = "exit1"
    /\ \E j, i \in DOMAIN encode_error :
         /\ encode_error[j] # 0
         /\ encode_error[i] = 0 /\ EncodedOf(i) # {}

\* An upload job of the full-upload flow has failed: a put raised, the
\* credentials are missing or the folder holds no converted file.
UploadJobFailed ==
    \/ \E j \in DOMAIN put_error : put_error[j] # 0
    \/ pc \in {"upload", "upload_abort"} /\ \E j \in DOMAIN job_status : job_status[j] = "failed"
    \/ message = "Volume upload failed"

\* C35: in the full-upload flow, once a volume's upload job has failed the
\* run ends with exit code 1 without createManga or addVolume, and every
\* object put by that job or a sibling job is still in the bucket.
C35_UploadFailureStopsDatabase ==
    (Full /\ UploadJobFailed) =>
        /\ pc \in {"upload", "upload_abort", "exit1"}
        /\ pc # "exit1" => ENABLED FullNext
        /\ calls = <<>>
        /\ \A o \in puts : o[2] \in bucket[FolderOf(o[1])]

\* C35 witness: the run has ended after a job failed at its second or later
\* put while a sibling job had put all its files.
C35_Witness ==
    /\ Full /\ pc = "exit1" /\ message = "Volume upload failed"
    /\ \E j, i \in DOMAIN put_error :
         /\ put_error[j] > 1 /\ <<j, 1>> \in posted
         /\ put_error[i] = 0 /\ job_status[i] = "done" /\ <<i, 1>> \in posted

\* The database calls of the add loops, and the ones that end the run: in
\* upload_full_manga every rejection, in upload_manga_to_db every rejection
\* that add_volume does not take for a duplicate.
IsAddCall(c) == c.op = "addVolume"
EndsTheRun(c) ==
    /\ IsAddCall(c)
    /\ IF Full THEN c.outcome # "ok" ELSE c.outcome = "error"

\* C36: in upload_full_manga and upload_manga_to_db the addVolume calls are
\* issued in ascending volume-number order, a failed call that is not taken
\* for a duplicate is the last call of the run, which has ended with exit
\* code 1, and the series and the volumes added before it are in the database.
C36_AddLoopOrderedAndFailFast ==
    (Full \/ ToDb) =>
        /\ \A i, j \in 1..Len(calls) :
             (i < j /\ IsAddCall(calls[i]) /\ IsAddCall(calls[j])) => calls[i].vol <= calls[j].vol
        /\ \A i \in 1..Len(calls) :
             EndsTheRun(calls[i]) => i = Len(calls) /\ pc = "exit1" /\ idx <= Len(volumes)
        /\ \A i \in 1..Len(calls) :
             (IsAddCall(calls[i]) /\ calls[i].outcome = "ok") =>
                 /\ manga_id \in 1..series
                 /\ calls[i].vol \in DOMAIN db[manga_id]
                 /\ db[manga_id][calls[i].vol] = calls[i].pageCount

\* C36 witness: a run ended by a failed addVolume after an accepted one, with
\* a later volume left unattempted.
C36_Witness ==
    /\ Full \/ ToDb
    /\ pc = "exit1" /\ idx < Len(volumes)
    /\ Len(calls) >= 2 /\ EndsTheRun(calls[Len(calls)])
    /\ \E i \in 1..(Len(calls) - 1) : IsAddCall(calls[i]) /\ calls[i].outcome = "ok"

\* Job j converted every image of its source folder.
ConvertedAll(j) ==
    LET n == source[volumes[j][2]]
    IN n > 0 /\ encode_error[j] = 0 /\ EncodedOf(j) = 1..n

\* The pages of volume vol that the upload jobs have put.
PutsOf(vol) == {o[2] : o \in {x \in puts : x[1] = vol}}

\* C37: after a successful conversion of a volume with N images its output
\* directory holds exactly the files 001..N, whatever it held before, and
\* the upload job publishes no file but these.
C37_OutputIsExactlyConverted ==
    (Full /\ DistinctNumbers) =>
        \A j \in DOMAIN volumes \cap DOMAIN encode_error :
            ConvertedAll(j) =>
                /\ outdir[volumes[j][1]] = 1..source[volumes[j][2]]
                /\ PutsOf(volumes[j][1]) \subseteq 1..source[volumes[j][2]]

\* What does hold: the converted files are in the directory, next to the
\* files it held before.
ConvertedFilesPresent ==
    (Full /\ DistinctNumbers) =>
        \A j \in DOMAIN volumes \cap DOMAIN encode_error :
            ConvertedAll(j) => 1..source[volumes[j][2]] \subseteq outdir[volumes[j][1]]

\* C38: once the prompt has been answered with N or NO, the run has ended
\* with exit code 0 and takes no further step; no database mutation was
\* issued by any of the three scripts and upload_full_manga has put no object.
C38_DeclineMutatesNothing ==
    ((Uvp \/ ToDb \/ Full) /\ Declined(confirm)) =>
        /\ pc = "exit0"
        /\ ~ENABLED (Next \/ FullNext)
        /\ calls = <<>> /\ db = db0
        /\ puts = {} /\ posted = {}

\* C38 witness: upload_full_manga was stopped by the answer NO after the
\* conversion had written its files.
C38_Witness ==
    /\ Full /\ pc = "exit0"
    /\ confirm = <<"N", "O">>
    /\ encoded # {}

\* ---------------------------------------------------------- specifications
\* update_volume_pages and upload_manga_to_db over every canonical bucket.
Spec == Init /\ [][Next]_vars

\* update_volume_pages up to the diff's report, over every bucket.
InitDiff ==
    /\ bucket \in AllBuckets
    /\ InitUvp
SpecDiff == InitDiff /\ [][NextDiff]_vars

\* update_volume_pages alone, over every bucket of volume folders, the
\* second spelling of volume 1 included.
InitApply ==
    /\ bucket \in {b \in AllBuckets : b[1] = {}}
    /\ InitUvp
SpecApply == InitApply /\ [][UvpNext]_vars

\* upload_full_manga over every source tree.
SpecFull == InitFull /\ [][FullNext]_vars

\* All three scripts.
SpecAll == (Init \/ InitFull) /\ [][Next \/ FullNext]_vars

\* upload_full_manga and upload_volume: the two scripts that convert and upload.
SpecUploads ==
    /\ InitFull \/ InitVolume
    /\ [][\/ FullNext
          \/ VolAskBucket \/ VolFindFolder \/ VolConvert \/ VolUpload
          \/ VolChooseManga \/ VolCreateManga \/ VolAddVolume]_vars

\* One call of convert_single_volume over every listing of a source folder.
SpecConvert == InitConvert /\ [][ConvDiscover \/ ConvEncode \/ ConvReturn]_vars

\* One call of list_volume_folders over every order of the common prefixes.
SpecListing == InitListing /\ [][ListStart \/ ListScan \/ ListReturn]_vars

\* The upload job of one volume, run twice over every output folder.
SpecPut == InitPut /\ [][PutStart \/ PutFile \/ PutReturn]_vars
====
